---- MODULE Spec2Model ----
(***************************************************************************)
(* Scorecard engine of the Beer Open outing application: the Round         *)
(* OPEN/FINAL state machine, the full-card and per-hole entry paths, the   *)
(* roster they validate drives against, and the responses they return.     *)
(* A handler is an operator from the stored rows and the request to the    *)
(* rows it leaves and the response it sends; an action commits the rows.   *)
(* One team and one event date are modelled; rows live in relations keyed  *)
(* the way the Django models key them.                                     *)
(***************************************************************************)
EXTENDS Integers, Sequences, FiniteSets, TLC

\* ------------------------------------------------------------------ sizes
HoleCount == 18
FrontNine == 9
MaxClock == 1

\* Python None / SQL NULL for integer-valued fields and inputs.
None == -1
\* NULL for the finalized_by foreign key.
NoUser == "null"

\* ------------------------------------------------------------ fixed data
Users == {"admin", "scorer", "viewer", "outsider"}
PlayerIds == {1, 2, 3}
\* Player.user: the login linked to each Player row.
PlayerUser == [p \in PlayerIds |-> IF p = 1 THEN "scorer" ELSE IF p = 2 THEN "viewer" ELSE "outsider"]
\* Player.can_score
PlayerCanScore == [p \in PlayerIds |-> p # 2]
\* User.is_staff
IsStaff(u) == u = "admin"

TeamId == "T1"
\* EventSettings.load().event_date
current_event_date == "D1"
Holes == 1..HoleCount

VARIABLES
    teamPlayers,   \* Team.players of the team (set of Player ids)
    rounds,        \* Round rows
    scores,        \* Score rows: <<round id, hole>> -> strokes (None = NULL)
    drives,        \* DriveUsed rows: <<round id, hole>> of the Score -> player id
    clock,         \* what now() returns
    pending,       \* scorecard requests between the lookup and the insert of get_or_create
    eventSettings, \* EventSettings rows (the singleton, pk = 1; none before the first load)
    teams,         \* Team rows (ids)
    players,       \* Player rows (ids)
    tokens,        \* MagicLoginToken rows: pk -> row
    sessions       \* who each browser is logged in as: browser -> user

\* The tables the scorecard and leaderboard requests never write.
otherTables == <<teams, players, tokens, sessions>>
vars == <<teamPlayers, rounds, scores, drives, clock, pending, eventSettings, otherTables>>

\* The three relations a scorecard request reads and writes.
Db == [rounds |-> rounds, scores |-> scores, drives |-> drives]

\* ------------------------------------------------------------- responses
\* One message of the messages framework: who = the players it names, holes = the
\* holes it names, n = the number it quotes (None when it quotes none).
Msg(level, kind, who, holes, n) == [level |-> level, kind |-> kind, who |-> who, holes |-> holes, n |-> n]
Reply(op, status, msgs, next) == [op |-> op, status |-> status, msgs |-> msgs, next |-> next]
\* redirect("team_scorecard") is next = None; redirect("hole_score", hole=h) is next = h
Card == None

\* ------------------------------------------------------------ permissions
is_member(u) == \E p \in teamPlayers : PlayerUser[p] = u
\* Variant of base_can_edit: membership alone, whatever Player.can_score says.
base_can_edit_member(u) == IsStaff(u) \/ \E p \in teamPlayers : PlayerUser[p] = u

base_can_edit(u) == IsStaff(u) \/ \E p \in teamPlayers : PlayerUser[p] = u /\ PlayerCanScore[p]

\* ---------------------------------------------------------------- inputs
\* A posted stroke field: text that is all digits (val is its value) or not.
Digits(n) == [isdigit |-> TRUE, val |-> n]
BlankText == [isdigit |-> FALSE, val |-> 0]
\* int(raw) if raw.isdigit() else None
ParseStrokes(raw) == IF raw.isdigit THEN raw.val ELSE None

\* ---------------------------------------------------- EventSettings rows
\* The singleton row: save() forces pk = 1; leaderboard_public defaults to False.
EventSettingsRow(public, course) == [pk |-> 1, leaderboard_public |-> public, scoring_course_id |-> course]

\* EventSettings.load(): get_or_create(pk=1, defaults=...), the table it leaves
EventSettingsLoad(es) == IF \E e \in es : e.pk = 1 THEN es ELSE es \cup {EventSettingsRow(FALSE, None)}

\* ------------------------------------------------------------ Round rows
RoundRow(id, at, by) ==
    [id |-> id, team |-> TeamId, event_date |-> current_event_date,
     finalized_at |-> at, finalized_by |-> by]

\* Round.objects.get(team=team, event_date=...): the rows the lookup matches
RoundLookup(rs) == {r \in rs : r.team = TeamId /\ r.event_date = current_event_date}

\* Variant of RoundUnique: no uniqueness constraint on the table.
RoundUniqueOff(rs, team, date) == TRUE

\* Meta.unique_together = ("team", "event_date"): may a row with this key be inserted?
RoundUnique(rs, team, date) == ~ \E r \in rs : r.team = team /\ r.event_date = date

\* AutoField primary key
NextRoundId(rs) == IF rs = {} THEN 1 ELSE 1 + CHOOSE m \in {r.id : r \in rs} : \A r \in rs : r.id <= m

\* The create half of get_or_create: INSERT, or IntegrityError and the row is fetched instead.
RoundInsert(rs) ==
    IF RoundUnique(rs, TeamId, current_event_date)
    THEN rs \cup {RoundRow(NextRoundId(rs), None, NoUser)}
    ELSE rs

\* Round.objects.get_or_create(team=team, event_date=current_event_date())
RoundGetOrCreate(rs) == IF RoundLookup(rs) = {} THEN RoundInsert(rs) ELSE rs

\* round_obj.save(update_fields=["finalized_at", "finalized_by"])
RoundSave(rs, id, at, by) ==
    {IF r.id = id THEN [r EXCEPT !.finalized_at = at, !.finalized_by = by] ELSE r : r \in rs}

\* bool(round_obj.finalized_at)
IsFinal(r) == r.finalized_at # None

\* ------------------------------------------------------------ Score rows
\* Score.objects.get_or_create(round=..., hole=h): a new row has strokes NULL
ScoreGetOrCreate(sc, rid, h) == IF <<rid, h>> \in DOMAIN sc THEN sc ELSE sc @@ (<<rid, h>> :> None)

\* Variant of ScoreSave: a stroke count already on the row is kept (first write wins).
ScoreSaveIfNull(sc, rid, h, strokes) ==
    IF sc[<<rid, h>>] = None THEN [sc EXCEPT ![<<rid, h>>] = strokes] ELSE sc

\* score.strokes = strokes; score.save()
ScoreSave(sc, rid, h, strokes) == [sc EXCEPT ![<<rid, h>>] = strokes]

\* DriveUsed.objects.update_or_create(score=sc, defaults={"player": p})
DriveUpdateOrCreate(dr, rid, h, p) ==
    IF <<rid, h>> \in DOMAIN dr THEN [dr EXCEPT ![<<rid, h>>] = p] ELSE dr @@ (<<rid, h>> :> p)

\* ------------------------------------------------------- full-card save loop
\* Variant of TeamPlayer: membership as it was when the team was set up, not as it is now.
TeamPlayerCached(pid) == IF pid \in {1, 2} THEN pid ELSE None

\* Variant of TeamPlayer: any Player row is accepted, on the team or not.
TeamPlayerAny(pid) == IF pid \in PlayerIds THEN pid ELSE None

\* Player.objects.filter(pk=drive_pid, teams=team).first(): None when no such member
TeamPlayer(pid) == IF pid \in teamPlayers THEN pid ELSE None

\* The holes whose posted drive is set on the DriveUsed row (update_or_create) ...
DriveSetHoles(form, upto) == {h \in 1..upto : form.drive[h] # None /\ TeamPlayer(form.drive[h]) # None}
\* Variant of DriveDeletedHoles: a blank drive field deletes nothing.
DriveDeletedNever(form, upto) == {}

\* ... and the holes whose DriveUsed row is deleted (blank drive field).
DriveDeletedHoles(form, upto) == {h \in 1..upto : form.drive[h] = None}

\* "for h in range(1, 19)" run through hole `upto`: each iteration touches the Score
\* and the DriveUsed of its own hole only.
ApplyHoles(db, written, set, del, form) ==
    [db EXCEPT
       !.scores = [k \in DOMAIN db.scores \cup written |->
                     IF k \in written THEN ParseStrokes(form.strokes[k[2]]) ELSE db.scores[k]],
       !.drives = [k \in (DOMAIN db.drives \ del) \cup set |->
                     IF k \in set THEN TeamPlayer(form.drive[k[2]]) ELSE db.drives[k]]]

SaveHoles(db, rid, upto, form) ==
    ApplyHoles(db, {<<rid, h>> : h \in 1..upto},
               {<<rid, h>> : h \in DriveSetHoles(form, upto)},
               {<<rid, h>> : h \in DriveDeletedHoles(form, upto)}, form)

\* --------------------------------------------------------- drive counts
\* DriveUsed.objects.filter(score__round=round_obj)
drive_qs(db, rid) == {k \in DOMAIN db.drives : k[1] = rid}
\* "if du.score.hole <= 9: front ... else: back"
front_counts(db, rid, p) == Cardinality({k \in drive_qs(db, rid) : k[2] <= FrontNine /\ db.drives[k] = p})
back_counts(db, rid, p) == Cardinality({k \in drive_qs(db, rid) : ~(k[2] <= FrontNine) /\ db.drives[k] = p})
\* counts[du.player_id] += 1 on a dict keyed by the current members only
CountsKeyError(db, rid) == \E k \in drive_qs(db, rid) : db.drives[k] \notin teamPlayers

entered_front(db, rid) == Cardinality({k \in DOMAIN db.scores : k[1] = rid /\ k[2] <= FrontNine /\ db.scores[k] # None})
entered_back(db, rid) == Cardinality({k \in DOMAIN db.scores : k[1] = rid /\ k[2] >= FrontNine + 1 /\ db.scores[k] # None})
holes_entered(db, rid) == Cardinality({k \in DOMAIN db.scores : k[1] = rid /\ db.scores[k] # None})

missing_front(db, rid) == {p \in teamPlayers : front_counts(db, rid, p) = 0}
missing_back(db, rid) == {p \in teamPlayers : back_counts(db, rid, p) = 0}

\* Variant of QuotaWarnings: a nine is reported without waiting for its 9 holes.
QuotaWarningsUnguarded(db, rid) ==
    (IF missing_front(db, rid) # {}
     THEN <<Msg("warning", "front_quota", missing_front(db, rid), {}, None)>> ELSE <<>>)
    \o
    (IF missing_back(db, rid) # {}
     THEN <<Msg("warning", "back_quota", missing_back(db, rid), {}, None)>> ELSE <<>>)

\* The quota warnings a save reports (messages.warning), in order.
QuotaWarnings(db, rid) ==
    (IF entered_front(db, rid) = FrontNine /\ missing_front(db, rid) # {}
     THEN <<Msg("warning", "front_quota", missing_front(db, rid), {}, None)>> ELSE <<>>)
    \o
    (IF entered_back(db, rid) = FrontNine /\ missing_back(db, rid) # {}
     THEN <<Msg("warning", "back_quota", missing_back(db, rid), {}, None)>> ELSE <<>>)

\* ------------------------------------------------ team_scorecard_view (POST)
Out(db, r) == [db |-> db, resp |-> r]

\* Variant of Unlock: any user who reaches the view may unlock.
UnlockAnyUser(db, u, round_obj) ==
    IF IsFinal(round_obj)
    THEN Out([db EXCEPT !.rounds = RoundSave(db.rounds, round_obj.id, None, NoUser)],
             Reply("scorecard", 302, <<Msg("info", "unlocked", {}, {}, None)>>, Card))
    ELSE Out(db, Reply("scorecard", 302, <<Msg("error", "cannot_unlock", {}, {}, None)>>, Card))

\* action == "unlock": staff only, and only a FINAL round
Unlock(db, u, round_obj) ==
    IF IsStaff(u) /\ IsFinal(round_obj)
    THEN Out([db EXCEPT !.rounds = RoundSave(db.rounds, round_obj.id, None, NoUser)],
             Reply("scorecard", 302, <<Msg("info", "unlocked", {}, {}, None)>>, Card))
    ELSE Out(db, Reply("scorecard", 302, <<Msg("error", "cannot_unlock", {}, {}, None)>>, Card))

\* Variant of MissingDriveErrors: the back nine is reported only when the front is complete.
MissingDriveErrorsElif(db, rid) ==
    IF missing_front(db, rid) # {}
    THEN <<Msg("error", "front_missing", missing_front(db, rid), {}, None)>>
    ELSE IF missing_back(db, rid) # {}
    THEN <<Msg("error", "back_missing", missing_back(db, rid), {}, None)>> ELSE <<>>

\* The errors of a finalize that finds a member without a drive on a nine.
MissingDriveErrors(db, rid) ==
    (IF missing_front(db, rid) # {}
     THEN <<Msg("error", "front_missing", missing_front(db, rid), {}, None)>> ELSE <<>>)
    \o
    (IF missing_back(db, rid) # {}
     THEN <<Msg("error", "back_missing", missing_back(db, rid), {}, None)>> ELSE <<>>)

\* Variant of Finalize: the lock is written before the checks are made.
FinalizeLockFirst(db, u, rid, msgs) ==
    IF holes_entered(db, rid) < HoleCount
    THEN Out([db EXCEPT !.rounds = RoundSave(db.rounds, rid, clock, u)],
             Reply("scorecard", 302,
                   Append(msgs, Msg("error", "incomplete", {}, {}, holes_entered(db, rid))), Card))
    ELSE IF CountsKeyError(db, rid)
    THEN Out(db, Reply("scorecard", 500, <<>>, Card))
    ELSE IF missing_front(db, rid) # {} \/ missing_back(db, rid) # {}
    THEN Out([db EXCEPT !.rounds = RoundSave(db.rounds, rid, clock, u)],
             Reply("scorecard", 302, msgs \o MissingDriveErrors(db, rid), Card))
    ELSE Out([db EXCEPT !.rounds = RoundSave(db.rounds, rid, clock, u)],
             Reply("scorecard", 302, Append(msgs, Msg("success", "finalized", {}, {}, None)), Card))

\* action == "finalize", after the holes are saved: enforce and lock
Finalize(db, u, rid, msgs) ==
    IF holes_entered(db, rid) < HoleCount
    THEN Out(db, Reply("scorecard", 302,
                       Append(msgs, Msg("error", "incomplete", {}, {}, holes_entered(db, rid))), Card))
    ELSE IF CountsKeyError(db, rid)
    THEN Out(db, Reply("scorecard", 500, <<>>, Card))
    ELSE IF missing_front(db, rid) # {} \/ missing_back(db, rid) # {}
    THEN Out(db, Reply("scorecard", 302, msgs \o MissingDriveErrors(db, rid), Card))
    ELSE Out([db EXCEPT !.rounds = RoundSave(db.rounds, rid, clock, u)],
             Reply("scorecard", 302, Append(msgs, Msg("success", "finalized", {}, {}, None)), Card))

\* Variant of CanEdit: the lock is not consulted.
CanEditUnlocked(base, round_obj) == base

\* can_edit = base_can_edit and not is_final
CanEdit(base, round_obj) == base /\ ~IsFinal(round_obj)

\* After the hole loop: the quota warnings, then finalize or "Saved."
AfterSave(saved, u, rid, action) ==
    IF action = "finalize"
    THEN Finalize(saved, u, rid, QuotaWarnings(saved, rid))
    ELSE Out(saved, Reply("scorecard", 302,
                          Append(QuotaWarnings(saved, rid), Msg("success", "saved", {}, {}, None)), Card))

ScorecardPost(db, u, base, round_obj, action, form) ==
    IF action = "unlock" THEN Unlock(db, u, round_obj)
    ELSE IF ~CanEdit(base, round_obj)
    THEN Out(db, Reply("scorecard", 302, <<Msg("error", "locked", {}, {}, None)>>, Card))
    ELSE AfterSave(SaveHoles(db, round_obj.id, HoleCount, form), u, round_obj.id, action)

\* GET: the page; the drive badges index a dict keyed by the current members
ScorecardGet(db, u, round_obj) ==
    IF CountsKeyError(db, round_obj.id)
    THEN Out(db, Reply("scorecard", 500, <<>>, Card))
    ELSE Out(db, Reply("scorecard", 200, <<>>, Card))

\* The view from the line after get_or_create on (get raises when it matches two rows);
\* base is base_can_edit, computed before get_or_create.
ScorecardRest(db, u, base, method, action, form) ==
    IF Cardinality(RoundLookup(db.rounds)) # 1
    THEN Out(db, Reply("scorecard", 500, <<>>, Card))
    ELSE IF method = "POST"
    THEN ScorecardPost(db, u, base, CHOOSE r \in RoundLookup(db.rounds) : TRUE, action, form)
    ELSE ScorecardGet(db, u, CHOOSE r \in RoundLookup(db.rounds) : TRUE)

\* Who can view: staff or a member of the team
CanView(u) == IsStaff(u) \/ is_member(u)

team_scorecard_view(db, u, method, action, form) ==
    IF ~CanView(u)
    THEN Out(db, Reply("scorecard", 403, <<>>, Card))
    ELSE ScorecardRest([db EXCEPT !.rounds = RoundGetOrCreate(db.rounds)],
                       u, base_can_edit(u), method, action, form)

\* ------------------------------------------------------------- hole_score
\* Variant of NextHole: always the next hole, the end of a nine included.
NextHoleNoCard(hole) == IF hole + 1 < HoleCount THEN hole + 1 ELSE HoleCount

\* Advance unless it is the end of a nine
NextHole(hole) == IF hole \in {FrontNine, HoleCount} THEN Card
                  ELSE IF hole + 1 < HoleCount THEN hole + 1 ELSE HoleCount

HoleScorePost(db, u, rnd, hole, go, raw, drive_pid) ==
    IF go = "card" THEN Out(db, Reply("hole", 302, <<>>, Card))
    ELSE IF ~CanEdit(base_can_edit(u), rnd)
    THEN Out(db, Reply("hole", 302, <<Msg("error", "locked", {}, {}, None)>>, hole))
    ELSE IF drive_pid = None
    THEN Out(db, Reply("hole", 302, <<Msg("error", "choose_drive", {}, {}, None)>>, hole))
    ELSE IF TeamPlayer(drive_pid) = None
    THEN Out([db EXCEPT !.scores = ScoreSave(db.scores, rnd.id, hole, ParseStrokes(raw))],
             Reply("hole", 302, <<Msg("error", "invalid_player", {}, {hole}, None)>>, hole))
    ELSE Out([db EXCEPT !.scores = ScoreSave(db.scores, rnd.id, hole, ParseStrokes(raw)),
                        !.drives = DriveUpdateOrCreate(db.drives, rnd.id, hole, TeamPlayer(drive_pid))],
             Reply("hole", 302, <<Msg("success", "recorded", {}, {}, None)>>, NextHole(hole)))

hole_score(db, u, round_id, hole, method, go, raw, drive_pid) ==
    IF ~ \E r \in db.rounds : r.id = round_id
    THEN Out(db, Reply("hole", 404, <<>>, Card))
    ELSE IF ~CanView(u)
    THEN Out(db, Reply("hole", 403, <<>>, Card))
    ELSE IF method = "POST"
    THEN HoleScorePost([db EXCEPT !.scores = ScoreGetOrCreate(db.scores, round_id, hole)],
                       u, CHOOSE r \in db.rounds : r.id = round_id, hole, go, raw, drive_pid)
    ELSE Out([db EXCEPT !.scores = ScoreGetOrCreate(db.scores, round_id, hole)],
             Reply("hole", 200, <<>>, hole))

\* ------------------------------------------------------- request inputs
StrokeVals == {4}
\* The stroke fields h1..h18 of a posted card: the holes in `fill` carry a number.
FormFills == {1..FrontNine, 1..(HoleCount - 1), 1..HoleCount}
\* The drive fields d1..d18: two holes of each nine carry a selection, the rest are blank.
FrontPairs == {<<None, None>>, <<1, 2>>, <<3, 1>>}
BackPairs == {<<None, None>>, <<1, 2>>}
FormOf(fill, fp, bp) ==
    [strokes |-> [h \in Holes |-> IF h \in fill THEN Digits(4) ELSE BlankText],
     drive |-> [h \in Holes |-> IF h = 1 THEN fp[1] ELSE IF h = 2 THEN fp[2]
                                ELSE IF h = FrontNine + 1 THEN bp[1]
                                ELSE IF h = FrontNine + 2 THEN bp[2] ELSE None]]
Forms == {FormOf(fill, fp, bp) : fill \in FormFills, fp \in FrontPairs, bp \in BackPairs}
BlankForm == [strokes |-> [h \in Holes |-> BlankText], drive |-> [h \in Holes |-> None]]
Actions == {"save", "finalize", "unlock"}
\* <int:hole> of the per-hole URL: any non-negative integer
HoleArgs == {1, HoleCount + 1}
RawStrokes == {BlankText} \cup {Digits(n) : n \in StrokeVals}
DriveArgs == {None, 1, 3}
\* The players team_manage_view moves on and off the team.
ManagedPlayers == {2}
\* The posted hole fields are read only by a request that reaches the save loop.
FormsRead(base, action) ==
    IF action # "unlock" /\ base /\ \A r \in RoundLookup(rounds) : ~IsFinal(r)
    THEN Forms ELSE {BlankForm}
\* The two requests whose first access to the scorecard may interleave.
Slots == {1, 2}
Idle == [pc |-> "idle", user |-> NoUser, base |-> FALSE, round |-> None, created |-> FALSE]
\* The cards posted by the requests of the interleaved first access.
RaceForms == {BlankForm, FormOf(1..HoleCount, <<1, 2>>, <<1, 2>>)}

\* ---------------------------------------------------------------- actions
Init ==
    /\ teamPlayers = {1, 2}
    /\ rounds = {}
    /\ scores = << >>
    /\ drives = << >>
    /\ clock = 0
    /\ pending = [s \in Slots |-> Idle]
    /\ eventSettings = {EventSettingsRow(FALSE, None)}
    /\ teams = {TeamId}
    /\ players = PlayerIds
    /\ tokens = << >>
    /\ sessions = << >>

Commit(out) ==
    /\ rounds' = out.db.rounds
    /\ scores' = out.db.scores
    /\ drives' = out.db.drives
    /\ UNCHANGED <<teamPlayers, clock, pending, eventSettings, otherTables>>

Tick ==
    /\ clock < MaxClock
    /\ clock' = clock + 1
    /\ UNCHANGED <<teamPlayers, rounds, scores, drives, pending, eventSettings, otherTables>>

TeamScorecardGet(u) == Commit(team_scorecard_view(Db, u, "GET", "save", BlankForm))

TeamScorecardPost(u, action, form) == Commit(team_scorecard_view(Db, u, "POST", action, form))

HoleScoreGet(u, rid, hole) == Commit(hole_score(Db, u, rid, hole, "GET", "save", BlankText, None))

HoleScoreCard(u, rid, hole) == Commit(hole_score(Db, u, rid, hole, "POST", "card", BlankText, None))

HoleScoreSave(u, rid, hole, raw, drive_pid) == Commit(hole_score(Db, u, rid, hole, "POST", "save", raw, drive_pid))

\* team_manage_view, action == "add_player" (staff only)
AddPlayer(p) ==
    /\ p \notin teamPlayers
    /\ teamPlayers' = teamPlayers \cup {p}
    /\ UNCHANGED <<rounds, scores, drives, clock, pending, eventSettings, otherTables>>

\* team_manage_view, action == "remove_player" (staff only)
RemovePlayer(p) ==
    /\ p \in teamPlayers
    /\ teamPlayers' = teamPlayers \ {p}
    /\ UNCHANGED <<rounds, scores, drives, clock, pending, eventSettings, otherTables>>

Next ==
    \/ Tick
    \/ \E u \in Users : TeamScorecardGet(u)
    \/ \E u \in Users, a \in Actions : \E f \in FormsRead(base_can_edit(u), a) : TeamScorecardPost(u, a, f)
    \/ \E u \in Users, hole \in HoleArgs : HoleScoreGet(u, 1, hole)
    \/ \E u \in Users, hole \in HoleArgs : HoleScoreCard(u, 1, hole)
    \/ \E u \in Users, hole \in HoleArgs, raw \in RawStrokes, d \in DriveArgs : HoleScoreSave(u, 1, hole, raw, d)
    \/ \E p \in ManagedPlayers : AddPlayer(p)
    \/ \E p \in ManagedPlayers : RemovePlayer(p)

Spec == Init /\ [][Next]_vars

\* ------------------------------------------- first access, interleaved
\* get_or_create is a SELECT, then (on a miss) an INSERT, then (on IntegrityError) a
\* SELECT again: two requests can both miss before either inserts. A slot holds a
\* request from its miss to its insert, and afterwards the row it went on with.
FirstAccessLookup(s, u) ==
    /\ pending[s].pc = "idle"
    /\ CanView(u)
    /\ RoundLookup(rounds) = {}
    /\ pending' = [pending EXCEPT ![s] = [pc |-> "insert", user |-> u, base |-> base_can_edit(u),
                                          round |-> None, created |-> FALSE]]
    /\ UNCHANGED <<teamPlayers, rounds, scores, drives, clock, eventSettings, otherTables>>

FirstAccessInsert(s, method, action, form) ==
    /\ pending[s].pc = "insert"
    /\ \E o \in {ScorecardRest([Db EXCEPT !.rounds = RoundInsert(rounds)], pending[s].user,
                                pending[s].base, method, action, form)} :
          /\ rounds' = o.db.rounds
          /\ scores' = o.db.scores
          /\ drives' = o.db.drives
    /\ pending' = [pending EXCEPT ![s] =
                     [pc |-> "done", user |-> NoUser, base |-> FALSE,
                      round |-> IF Cardinality(RoundLookup(RoundInsert(rounds))) = 1
                                THEN (CHOOSE r \in RoundLookup(RoundInsert(rounds)) : TRUE).id ELSE None,
                      created |-> RoundInsert(rounds) # rounds]]
    /\ UNCHANGED <<teamPlayers, clock, eventSettings, otherTables>>

FirstAccessGet(s) == FirstAccessInsert(s, "GET", "save", BlankForm)

FirstAccessPost(s, action, form) == FirstAccessInsert(s, "POST", action, form)

NextRace ==
    \/ Tick
    \/ \E p \in ManagedPlayers : AddPlayer(p)
    \/ \E p \in ManagedPlayers : RemovePlayer(p)
    \/ \E u \in Users : TeamScorecardGet(u)
    \/ \E u \in Users, a \in Actions, f \in RaceForms : TeamScorecardPost(u, a, f)
    \/ \E s \in Slots, u \in Users : FirstAccessLookup(s, u)
    \/ \E s \in Slots : FirstAccessGet(s)
    \/ \E s \in Slots, a \in Actions, f \in RaceForms : FirstAccessPost(s, a, f)

SpecRace == Init /\ [][NextRace]_vars

\* --------------------------------------- save requests, statement by statement
\* A request that writes holes is a sequence of database statements, each committed on its
\* own: the edit check made once at the start (can_edit), then per hole the Score write and
\* the DriveUsed write, then for a finalize the check and the lock. Statements of two
\* requests interleave. kind is "save" or "finalize" (the scorecard POST, holes 1..18) or
\* "hole" (the per-hole POST, one hole).
StepFormA == FormOf(1..HoleCount, <<1, 2>>, <<1, 2>>)
StepFormB == [StepFormA EXCEPT !.strokes[FrontNine + 1] = BlankText, !.drive[FrontNine + 1] = 2]
\* The hole of the per-hole request.
StepHole == FrontNine + 1
Running(u, rid, kind, form, pc, hole) ==
    [pc |-> pc, user |-> u, round |-> rid, kind |-> kind, form |-> form, hole |-> hole]
FirstHoleOf(kind) == IF kind = "hole" THEN StepHole ELSE 1
LastHoleOf(kind) == IF kind = "hole" THEN StepHole ELSE HoleCount

\* The request is routed, the Round is fetched and can_edit is computed; the per-hole view
\* also makes sure its Score row exists. A request without the edit right ends here.
StepStart(s, u, kind, form) ==
    /\ pending[s].pc = "idle"
    /\ CanView(u)
    /\ Cardinality(RoundLookup(rounds)) = 1
    /\ \E r \in RoundLookup(rounds) :
          /\ pending' = [pending EXCEPT ![s] =
                           Running(u, r.id, kind, form,
                                   IF CanEdit(base_can_edit(u), r) THEN "strokes" ELSE "done",
                                   FirstHoleOf(kind))]
          /\ scores' = IF kind = "hole" THEN ScoreGetOrCreate(scores, r.id, StepHole) ELSE scores
    /\ UNCHANGED <<teamPlayers, rounds, drives, clock, eventSettings, otherTables>>

\* sc, _ = get_or_create(...); sc.strokes = strokes; sc.save()
StepStrokes(s) ==
    /\ pending[s].pc = "strokes"
    /\ scores' = ScoreSave(ScoreGetOrCreate(scores, pending[s].round, pending[s].hole),
                           pending[s].round, pending[s].hole,
                           ParseStrokes(pending[s].form.strokes[pending[s].hole]))
    /\ pending' = [pending EXCEPT ![s].pc = "drive"]
    /\ UNCHANGED <<teamPlayers, rounds, drives, clock, eventSettings, otherTables>>

\* The hole's drive: update_or_create for a member, delete for a blank field (full card),
\* nothing for a player who is not on the team.
StepDriveRows(dr, rid, h, pid) ==
    IF pid = None THEN [k \in DOMAIN dr \ {<<rid, h>>} |-> dr[k]]
    ELSE IF TeamPlayer(pid) = None THEN dr
    ELSE DriveUpdateOrCreate(dr, rid, h, TeamPlayer(pid))

StepDrive(s) ==
    /\ pending[s].pc = "drive"
    /\ drives' = StepDriveRows(drives, pending[s].round, pending[s].hole,
                               pending[s].form.drive[pending[s].hole])
    /\ pending' = [pending EXCEPT ![s].pc = IF pending[s].hole < LastHoleOf(pending[s].kind)
                                            THEN "strokes"
                                            ELSE IF pending[s].kind = "finalize" THEN "finalize" ELSE "done",
                                  ![s].hole = IF pending[s].hole < LastHoleOf(pending[s].kind)
                                              THEN pending[s].hole + 1 ELSE pending[s].hole]
    /\ UNCHANGED <<teamPlayers, rounds, scores, clock, eventSettings, otherTables>>

\* action == "finalize": the checks on the card as it is now, and the lock
StepFinalize(s) ==
    /\ pending[s].pc = "finalize"
    /\ rounds' = Finalize(Db, pending[s].user, pending[s].round, <<>>).db.rounds
    /\ pending' = [pending EXCEPT ![s].pc = "done"]
    /\ UNCHANGED <<teamPlayers, scores, drives, clock, eventSettings, otherTables>>

NextSteps ==
    \/ Tick
    \/ TeamScorecardGet("scorer")
    \/ \E k \in {"save", "hole"} : StepStart(1, "scorer", k, StepFormB)
    \/ \E k \in {"save", "finalize"} : StepStart(2, "admin", k, StepFormA)
    \/ \E s \in Slots : StepStrokes(s)
    \/ \E s \in Slots : StepDrive(s)
    \/ \E s \in Slots : StepFinalize(s)

SpecSteps == Init /\ [][NextSteps]_vars

\* ======================================================== requests, as asked
\* The response and the rows a request would leave, asked in the current state.
CardPost(u, action, form) == team_scorecard_view(Db, u, "POST", action, form)
CardGet(u) == team_scorecard_view(Db, u, "GET", "save", BlankForm)
HolePost(u, rid, hole, raw, drive_pid) == hole_score(Db, u, rid, hole, "POST", "save", raw, drive_pid)
HoleGet(u, rid, hole) == hole_score(Db, u, rid, hole, "GET", "save", BlankText, None)

\* The statement's own vocabulary, in terms of the stored rows.
MayView(u) == u = "admin" \/ \E p \in teamPlayers : PlayerUser[p] = u
MayWrite(u) == u = "admin" \/ \E p \in teamPlayers : PlayerUser[p] = u /\ PlayerCanScore[p]
StrokeAt(sc, k) == IF k \in DOMAIN sc THEN sc[k] ELSE None
DriveAt(dr, k) == IF k \in DOMAIN dr THEN dr[k] ELSE None
SameRows(o) == o.db.rounds = rounds /\ o.db.scores = scores /\ o.db.drives = drives
SameCard(o) == o.db.scores = scores /\ o.db.drives = drives
FinalIn(rs, id) == \E r \in rs : r.id = id /\ r.finalized_at # None
OpenRounds == {r \in rounds : r.finalized_at = None}
FinalRounds == {r \in rounds : r.finalized_at # None}
Kinds(resp, level) == {resp.msgs[i].kind : i \in {j \in DOMAIN resp.msgs : resp.msgs[j].level = level}}
Named(resp, kind) == UNION {resp.msgs[i].who : i \in {j \in DOMAIN resp.msgs : resp.msgs[j].kind = kind}}
NamedHoles(resp) == UNION {resp.msgs[i].holes : i \in {j \in DOMAIN resp.msgs : resp.msgs[j].level = "error"}}

\* ---------------------------------------------------------------- C1
\* C1 (lock integrity): while a Round is FINAL, no full-card save, finalize or per-hole
\* entry request by any actor changes the Score or DriveUsed rows under it, and only an
\* administrator's unlock takes it out of FINAL.
C1_LockIntegrity ==
    \A r \in FinalRounds :
        /\ \A u \in Users, a \in Actions, f \in Forms :
              /\ a # "unlock" => SameCard(CardPost(u, a, f))
              /\ ~FinalIn(CardPost(u, a, f).db.rounds, r.id) => a = "unlock" /\ u = "admin"
        /\ \A u \in Users, h \in HoleArgs, raw \in RawStrokes, d \in DriveArgs :
              /\ SameCard(HolePost(u, r.id, h, raw, d))
              /\ FinalIn(HolePost(u, r.id, h, raw, d).db.rounds, r.id)

\* ---------------------------------------------------------------- C2
AllHolesScored(db, rid) == \A h \in Holes : StrokeAt(db.scores, <<rid, h>>) # None
CoveredOn(db, rid, p, nine) == \E h \in nine : DriveAt(db.drives, <<rid, h>>) = p
EveryMemberCovered(db, rid) ==
    \A p \in teamPlayers : CoveredOn(db, rid, p, 1..FrontNine) /\ CoveredOn(db, rid, p, (FrontNine + 1)..HoleCount)
Editors == {u \in Users : MayWrite(u)}
FinalizedIffComplete(o, rid) ==
    FinalIn(o.db.rounds, rid) <=> AllHolesScored(o.db, rid) /\ EveryMemberCovered(o.db, rid)

\* C2 (finalize precondition): a finalize request by an actor with edit rights on an OPEN
\* round makes it FINAL if and only if holes 1-18 all have a stroke count and every current
\* member has a drive on holes 1-9 and on holes 10-18 (on the card the request leaves).
C2_FinalizeIff ==
    \A r \in OpenRounds : \A u \in Editors, f \in Forms :
        FinalizedIffComplete(CardPost(u, "finalize", f), r.id)

\* ---------------------------------------------------------------- C3
\* A finalize answered with one of its precondition errors.
FinalizeRefused(resp) == Kinds(resp, "error") \cap {"incomplete", "front_missing", "back_missing"} # {}
RefusedLeavesCard(o, rid) ==
    FinalizeRefused(o.resp) => ~FinalIn(o.db.rounds, rid) /\ SameCard(o)
RefusedSavesCard(o, u, f) ==
    FinalizeRefused(o.resp) =>
        /\ o.db.rounds = rounds
        /\ \A r \in rounds : r.finalized_at = None /\ r.finalized_by = NoUser
        /\ o.db.scores = CardPost(u, "save", f).db.scores
        /\ o.db.drives = CardPost(u, "save", f).db.drives

\* C3 as stated (failed finalize atomicity): a finalize refused for an unmet precondition
\* leaves the finalization fields null and the Scores and DriveUsed as they were.
C3_FailedFinalizeNoChange ==
    \A r \in OpenRounds : \A u \in Editors, f \in Forms :
        RefusedLeavesCard(CardPost(u, "finalize", f), r.id)

\* C3 (amended): a finalize refused for an unmet precondition leaves the Round row as it
\* was, both finalization fields null, and leaves the Scores and DriveUsed exactly as a
\* plain save of the same posted card leaves them.
C3_FailedFinalizeSavesCard ==
    \A r \in OpenRounds : \A u \in Editors, f \in Forms :
        RefusedSavesCard(CardPost(u, "finalize", f), u, f)

\* An OPEN round holding a card on which a refused finalize has written strokes and drives:
\* the same finalize is refused again, and another refused one would blank hole 18.
C3_Witness ==
    \E r \in OpenRounds :
        /\ StrokeAt(scores, <<r.id, HoleCount>>) # None
        /\ DriveAt(drives, <<r.id, 1>>) = 1
        /\ \E f \in Forms :
              /\ FinalizeRefused(CardPost("scorer", "finalize", f).resp)
              /\ StrokeAt(CardPost("scorer", "finalize", f).db.scores, <<r.id, HoleCount>>) = None

\* ---------------------------------------------------------------- C4
NamesAllMissing(o, rid) ==
    ~FinalIn(o.db.rounds, rid) =>
        /\ NamedHoles(o.resp) = {h \in Holes : StrokeAt(o.db.scores, <<rid, h>>) = None}
        /\ Named(o.resp, "front_missing") = {p \in teamPlayers : ~CoveredOn(o.db, rid, p, 1..FrontNine)}
        /\ Named(o.resp, "back_missing")
             = {p \in teamPlayers : ~CoveredOn(o.db, rid, p, (FrontNine + 1)..HoleCount)}

ScoredRows(db, rid) == {k \in DOMAIN db.scores : k[1] = rid /\ db.scores[k] # None}
NoDriveLow(db, rid) ==
    {p \in teamPlayers : ~ \E k \in DOMAIN db.drives : k[1] = rid /\ k[2] <= 9 /\ db.drives[k] = p}
NoDriveHigh(db, rid) ==
    {p \in teamPlayers : ~ \E k \in DOMAIN db.drives : k[1] = rid /\ k[2] > 9 /\ db.drives[k] = p}
ErrorMsgs(resp) == {resp.msgs[i] : i \in {j \in DOMAIN resp.msgs : resp.msgs[j].level = "error"}}
RefusalContent(o, rid) ==
    FinalizeRefused(o.resp) =>
        IF Cardinality(ScoredRows(o.db, rid)) < 18
        THEN ErrorMsgs(o.resp) = {Msg("error", "incomplete", {}, {}, Cardinality(ScoredRows(o.db, rid)))}
        ELSE /\ Kinds(o.resp, "error") \subseteq {"front_missing", "back_missing"}
             /\ NamedHoles(o.resp) = {}
             /\ Named(o.resp, "front_missing") = NoDriveLow(o.db, rid)
             /\ Named(o.resp, "back_missing") = NoDriveHigh(o.db, rid)

RoundIds == {r.id : r \in rounds}
\* No stroke value, no DriveUsed and no finalization field differs after the request.
NoWrite(o) ==
    /\ o.db.drives = drives
    /\ DOMAIN scores \subseteq DOMAIN o.db.scores
    /\ \A k \in DOMAIN o.db.scores : o.db.scores[k] = StrokeAt(scores, k)
    /\ rounds \subseteq o.db.rounds
    /\ \A r \in o.db.rounds \ rounds : r.finalized_at = None /\ r.finalized_by = NoUser

\* C5 (write permission): a request changes a stroke value or a DriveUsed, or finalizes a
\* round, only if the actor is an administrator or a team member with the scoring
\* capability: no request of any other actor does.
C5_WritePermission ==
    \A u \in Users \ Editors :
        /\ \A a \in Actions, f \in Forms : NoWrite(CardPost(u, a, f))
        /\ NoWrite(CardGet(u))
        /\ \A rid \in RoundIds, h \in HoleArgs :
              /\ NoWrite(HoleGet(u, rid, h))
              /\ \A raw \in RawStrokes, d \in DriveArgs : NoWrite(HolePost(u, rid, h, raw, d))

\* An OPEN round that a scoring actor has written on, with a member on the team who lacks
\* the scoring capability and whose save is refused.
C5_Witness ==
    \E r \in OpenRounds :
        /\ StrokeAt(scores, <<r.id, 1>>) # None
        /\ DriveAt(drives, <<r.id, 1>>) # None
        /\ 2 \in teamPlayers /\ ~PlayerCanScore[2]
        /\ Kinds(CardPost(PlayerUser[2], "save", BlankForm).resp, "error") = {"locked"}

\* ---------------------------------------------------------------- C6
\* The request is answered with an error and no stored row differs after it.
Denied(o) == (o.resp.status = 403 \/ Kinds(o.resp, "error") # {}) /\ SameRows(o)

\* C6 (permission failure): a write attempt by an actor who fails the permission check (not
\* allowed to view; a member without the scoring capability; a non-administrator asking to
\* unlock) leaves every stored row untouched.
C6_DeniedNoChange ==
    \A u \in Users :
        /\ ~MayWrite(u) =>
              /\ \A a \in Actions, f \in Forms : Denied(CardPost(u, a, f))
              /\ \A rid \in RoundIds, h \in HoleArgs, raw \in RawStrokes, d \in DriveArgs :
                    Denied(HolePost(u, rid, h, raw, d))
        /\ u # "admin" => \A f \in Forms : Denied(CardPost(u, "unlock", f))
        /\ ~MayView(u) => Denied(CardGet(u)) /\ \A rid \in RoundIds, h \in HoleArgs : Denied(HoleGet(u, rid, h))

\* ---------------------------------------------------------------- C7
\* What a request does to a FINAL round: it stays FINAL unless the request is an
\* administrator's unlock, which clears both fields.
KeepsFinalUnless(o, r, isAdminUnlock) ==
    IF isAdminUnlock
    THEN o.db.rounds = (rounds \ {r}) \cup {[r EXCEPT !.finalized_at = None, !.finalized_by = NoUser]}
    ELSE o.db.rounds = rounds

\* C7 (unlock): a FINAL round becomes OPEN only by the unlock of an administrator; the
\* unlock clears finalized_at and finalized_by together and changes no Score or DriveUsed;
\* the two fields are always null together.
C7_UnlockAdminOnly ==
    /\ \A r \in rounds : (r.finalized_at = None) <=> (r.finalized_by = NoUser)
    /\ \A r \in FinalRounds :
          /\ \A u \in Users, a \in Actions, f \in Forms :
                /\ KeepsFinalUnless(CardPost(u, a, f), r, a = "unlock" /\ u = "admin")
                /\ a = "unlock" => SameCard(CardPost(u, a, f))
          /\ \A u \in Users : KeepsFinalUnless(CardGet(u), r, FALSE)
          /\ \A u \in Users, h \in HoleArgs :
                /\ KeepsFinalUnless(HoleGet(u, r.id, h), r, FALSE)
                /\ \A raw \in RawStrokes, d \in DriveArgs :
                      KeepsFinalUnless(HolePost(u, r.id, h, raw, d), r, FALSE)

\* A round finalized by the scoring member, with its card on file, which the
\* administrator's unlock reopens.
C7_Witness ==
    \E r \in FinalRounds :
        /\ r.finalized_by = "scorer"
        /\ DOMAIN drives # {}
        /\ ~FinalIn(CardPost("admin", "unlock", BlankForm).db.rounds, r.id)

\* ---------------------------------------------------------------- C8
\* C8 (idempotent re-finalize): a finalize request on a round that is already FINAL changes
\* nothing, finalization fields included, and is answered, for an actor allowed on the
\* scorecard, with the error that the card is locked.
C8_ReFinalizeNoOp ==
    \A r \in FinalRounds : \A u \in Users, f \in Forms :
        /\ SameRows(CardPost(u, "finalize", f))
        /\ MayView(u) => CardPost(u, "finalize", f).resp.msgs = <<Msg("error", "locked", {}, {}, None)>>

\* A round finalized earlier by the scoring member: a finalize now, by anyone, would carry
\* another time and another user.
C8_Witness ==
    \E r \in FinalRounds : r.finalized_by = "scorer" /\ r.finalized_at < clock

\* ---------------------------------------------------------------- C9
\* C9 (round uniqueness): at most one Round exists per (team, event date), also when two
\* first accesses interleave; both requests end on the same Round, and once it exists
\* get_or_create never creates another.
C9_RoundUniqueness ==
    /\ \A r1, r2 \in rounds : r1.team = r2.team /\ r1.event_date = r2.event_date => r1 = r2
    /\ rounds # {} => RoundGetOrCreate(rounds) = rounds
    /\ \A s, t \in Slots :
          pending[s].pc = "done" /\ pending[t].pc = "done" =>
              pending[s].round = pending[t].round /\ pending[s].round \in RoundIds

\* Two first accesses that both missed the lookup: one inserted the Round, the other's
\* insert was refused and it fetched the same row.
C9_Witness ==
    /\ pending[1].pc = "done" /\ pending[2].pc = "done"
    /\ pending[1].created /\ ~pending[2].created
    /\ Cardinality(rounds) = 1

\* ---------------------------------------------------------------- C10
\* The card after a full-card request that got past the edit check: each hole has the posted
\* strokes; its drive is the posted member, none if the field was blank, and the previous
\* one if the posted player is not on the team.
CardAsPosted(o, rid, f) ==
    \A h \in Holes :
        /\ StrokeAt(o.db.scores, <<rid, h>>) = (IF f.strokes[h].isdigit THEN f.strokes[h].val ELSE None)
        /\ DriveAt(o.db.drives, <<rid, h>>)
             = (IF f.drive[h] = None THEN None
                ELSE IF f.drive[h] \in teamPlayers THEN f.drive[h]
                ELSE DriveAt(drives, <<rid, h>>))
\* The per-hole request naming a non-member: refused with an error, no DriveUsed changed,
\* the hole's strokes set as posted, no other hole's Score changed.
HoleAsPosted(o, rid, h, raw) ==
    /\ Kinds(o.resp, "error") = {"invalid_player"}
    /\ o.db.drives = drives /\ o.db.rounds = rounds
    /\ DOMAIN o.db.scores = DOMAIN scores \cup {<<rid, h>>}
    /\ \A k \in DOMAIN o.db.scores :
          o.db.scores[k] = (IF k = <<rid, h>> THEN (IF raw.isdigit THEN raw.val ELSE None) ELSE scores[k])

\* C10 (drive validation): a posted drive naming a player who is not a current member is
\* not recorded for that hole; the hole's previous DriveUsed, if any, is left as it was, the
\* hole's posted strokes are still written, and the other holes are written as posted.
C10_DriveValidation ==
    \A r \in OpenRounds : \A u \in Editors :
        /\ \A a \in {"save", "finalize"}, f \in Forms :
              (\E h \in Holes : f.drive[h] # None /\ f.drive[h] \notin teamPlayers)
                 => CardAsPosted(CardPost(u, a, f), r.id, f)
        /\ \A h \in HoleArgs, raw \in RawStrokes, d \in DriveArgs \ ({None} \cup teamPlayers) :
              HoleAsPosted(HolePost(u, r.id, h, raw, d), r.id, h, raw)

\* Holes 1 and 2 both carry member 1's drive: the card was posted with a non-member on
\* hole 1 and member 1 on hole 2, over a hole 1 that already had member 1's drive.
C10_Witness ==
    \E r \in OpenRounds :
        /\ DriveAt(drives, <<r.id, 1>>) = 1 /\ DriveAt(drives, <<r.id, 2>>) = 1
        /\ StrokeAt(scores, <<r.id, 1>>) # None

\* ---------------------------------------------------------------- C11
InvalidDriveHoles(f) == {h \in Holes : f.drive[h] # None /\ f.drive[h] \notin teamPlayers}
ReportsInvalidDrives(o, holes) == holes \subseteq NamedHoles(o.resp)

\* C11 (validation error surfaced): every hole write whose drive-player id is not a current
\* member is answered with an error for that hole, on the full-card path and on the
\* per-hole path.
C11_InvalidDriveReported ==
    \A r \in OpenRounds : \A u \in Editors :
        /\ \A a \in {"save", "finalize"}, f \in Forms :
              ReportsInvalidDrives(CardPost(u, a, f), InvalidDriveHoles(f))
        /\ \A h \in HoleArgs, raw \in RawStrokes, d \in DriveArgs \ ({None} \cup teamPlayers) :
              ReportsInvalidDrives(HolePost(u, r.id, h, raw, d), {h})

\* ---------------------------------------------------------------- C12
FailedLeavesNoHole(o) == o.resp.status = 500 => SameCard(o)

\* C12 (all-or-nothing batch): when the processing of a submitted scorecard page fails (the
\* request ends in a server error), no hole of that submission remains updated.
C12_AllOrNothing ==
    \A r \in OpenRounds : \A u \in Editors, a \in {"save", "finalize"}, f \in Forms :
        FailedLeavesNoHole(CardPost(u, a, f))

\* ---------------------------------------------------------------- C15
\* C15 (Score shape): every Score row has a hole number in 1..18 and each Round has at
\* most 18 Score rows. (That no two rows share a (round, hole) is how the rows are keyed:
\* unique_together on the table.)
C15_ScoreShape ==
    /\ \A k \in DOMAIN scores : k[2] \in 1..18
    /\ \A rid \in RoundIds : Cardinality({k \in DOMAIN scores : k[1] = rid}) <= 18

\* ---------------------------------------------------------------- C16
\* C16 (drive membership): whenever a DriveUsed row is created or re-pointed, the player it
\* then names is on the team's roster as it stands in that request.
C16_DriveNamesMember ==
    [][\A k \in DOMAIN drives' :
          (k \notin DOMAIN drives \/ drives'[k] # drives[k]) => drives'[k] \in teamPlayers]_vars

\* Member 2 has left the team: the DriveUsed naming them is still stored, next to one
\* recorded for member 1.
C16_Witness ==
    /\ 2 \notin teamPlayers
    /\ \E k \in DOMAIN drives : drives[k] = 2
    /\ \E k \in DOMAIN drives : drives[k] = 1

\* ---------------------------------------------------------------- C17
StaleDrives == {k \in DOMAIN drives : drives[k] \notin teamPlayers}
CompletesNormally(o) == o.resp.status # 500
\* C17 (removed member): DriveUsed rows of a removed player remain stored and are left
\* out of the per-member counts: with such rows on file the scorecard view, a save and a
\* finalize all complete normally, and finalize decides coverage over the current members.
C17_RemovedMemberExcluded ==
    StaleDrives # {} =>
        /\ \A u \in Users : MayView(u) => CompletesNormally(CardGet(u))
        /\ \A r \in OpenRounds : \A u \in Editors, a \in {"save", "finalize"}, f \in Forms :
              /\ CompletesNormally(CardPost(u, a, f))
              /\ a = "finalize" => FinalizedIffComplete(CardPost(u, a, f), r.id)

\* ---------------------------------------------------------------- C18
ClearSemantics(o, rid, f) ==
    \A h \in Holes :
        /\ ~f.strokes[h].isdigit =>
              <<rid, h>> \in DOMAIN o.db.scores /\ o.db.scores[<<rid, h>>] = None
        /\ f.drive[h] = None => <<rid, h>> \notin DOMAIN o.db.drives
        /\ f.drive[h] \in teamPlayers =>
              <<rid, h>> \in DOMAIN o.db.drives /\ o.db.drives[<<rid, h>>] = f.drive[h]

\* C18 (clear semantics): on an OPEN round, for an actor with edit rights, a blank stroke
\* field of the posted card sets the hole's strokes to null, a blank drive field deletes
\* the hole's DriveUsed, and a drive field naming a member leaves the hole with the one
\* DriveUsed naming that member.
C18_ClearSemantics ==
    \A r \in OpenRounds : \A u \in Editors, a \in {"save", "finalize"}, f \in Forms :
        ClearSemantics(CardPost(u, a, f), r.id, f)

\* A card with strokes and drives on file that the blank card would clear: hole 1 has
\* strokes and a drive, hole 18 has been written blank.
C18_Witness ==
    \E r \in OpenRounds :
        /\ StrokeAt(scores, <<r.id, 1>>) # None /\ DriveAt(drives, <<r.id, 1>>) # None
        /\ <<r.id, HoleCount>> \in DOMAIN scores /\ scores[<<r.id, HoleCount>>] = None
        /\ CardPost("scorer", "save", BlankForm).db.drives = << >>

\* ---------------------------------------------------------------- C20
NineScored(db, rid, nine) == \A h \in nine : StrokeAt(db.scores, <<rid, h>>) # None
Uncovered(db, rid, nine) == {p \in teamPlayers : ~CoveredOn(db, rid, p, nine)}
AdvisoryFor(o, rid, kind, nine) ==
    /\ kind \in Kinds(o.resp, "warning") <=> NineScored(o.db, rid, nine) /\ Uncovered(o.db, rid, nine) # {}
    /\ kind \in Kinds(o.resp, "warning") => Named(o.resp, kind) = Uncovered(o.db, rid, nine)
AdvisoryExact(o, rid) ==
    /\ AdvisoryFor(o, rid, "front_quota", 1..FrontNine)
    /\ AdvisoryFor(o, rid, "back_quota", (FrontNine + 1)..HoleCount)
    /\ o.db.rounds = rounds

\* C20 as stated (quota advisory): after any batch of hole writes (a saved card, a saved
\* hole) an advisory for a nine is reported exactly when all 9 holes of that nine have
\* strokes and some current member has no drive on it; it names exactly those members, and
\* the round stays OPEN.
C20_QuotaAdvisory ==
    \A r \in OpenRounds : \A u \in Editors :
        /\ \A f \in Forms : AdvisoryExact(CardPost(u, "save", f), r.id)
        /\ \A h \in HoleArgs, raw \in RawStrokes, d \in DriveArgs \cap teamPlayers :
              AdvisoryExact(HolePost(u, r.id, h, raw, d), r.id)

ScoredLow(db, rid) == {k \in ScoredRows(db, rid) : k[2] <= 9}
ScoredHigh(db, rid) == {k \in ScoredRows(db, rid) : k[2] >= 10}
AdvisoryAsCounted(o, rid) ==
    /\ "front_quota" \in Kinds(o.resp, "warning")
         <=> Cardinality(ScoredLow(o.db, rid)) = 9 /\ NoDriveLow(o.db, rid) # {}
    /\ "front_quota" \in Kinds(o.resp, "warning") => Named(o.resp, "front_quota") = NoDriveLow(o.db, rid)
    /\ "back_quota" \in Kinds(o.resp, "warning")
         <=> Cardinality(ScoredHigh(o.db, rid)) = 9 /\ NoDriveHigh(o.db, rid) # {}
    /\ "back_quota" \in Kinds(o.resp, "warning") => Named(o.resp, "back_quota") = NoDriveHigh(o.db, rid)
    /\ Kinds(o.resp, "error") = {} /\ Kinds(o.resp, "success") = {"saved"}
    /\ o.db.rounds = rounds

\* C20 (amended): after a full-card save an advisory for the holes up to 9 (from 10 up) is
\* reported exactly when exactly 9 of the round's Score rows with such a hole number have
\* strokes and some current member has no drive there; it names exactly those members; the
\* save is answered "Saved." with the round left OPEN. A per-hole save reports no advisory.
C20_QuotaAdvisoryOnCard ==
    \A r \in OpenRounds : \A u \in Editors :
        /\ \A f \in Forms : AdvisoryAsCounted(CardPost(u, "save", f), r.id)
        /\ \A h \in HoleArgs, raw \in RawStrokes, d \in DriveArgs :
              Kinds(HolePost(u, r.id, h, raw, d).resp, "warning") = {}

\* The front nine is scored and member 2 has no drive on it: saving the card as it stands
\* reports the front-nine advisory naming member 2, and the round is OPEN.
C20_Witness ==
    \E r \in OpenRounds :
        /\ NineScored(Db, r.id, 1..FrontNine)
        /\ Uncovered(Db, r.id, 1..FrontNine) = {2}
        /\ \E f \in Forms :
              /\ CardPost("scorer", "save", f).db = Db
              /\ Named(CardPost("scorer", "save", f).resp, "front_quota") = {2}

\* ------------------------------------------------- stroke inputs, widened
\* "strokes (1-9)": the range the per-hole form is written for.
StrokeMax == 9
\* Stroke fields as typed: not all digits, or a number below, within or above the range.
WideStrokes == {0, 4, StrokeMax + 1}
WideRaws == {BlankText} \cup {Digits(n) : n \in WideStrokes}
\* A posted card whose hole 1 carries the given text, the other holes a 4, no drives.
WideForm(raw) ==
    [strokes |-> [h \in Holes |-> IF h = 1 THEN raw ELSE Digits(4)], drive |-> [h \in Holes |-> None]]
WideHoles == {1, 2, HoleCount}

NextStrokes ==
    \/ TeamScorecardGet("scorer")
    \/ \E raw \in WideRaws : TeamScorecardPost("scorer", "save", WideForm(raw))
    \/ \E h \in WideHoles, raw \in WideRaws : HoleScoreSave("scorer", 1, h, raw, 1)

SpecStrokes == Init /\ [][NextStrokes]_vars

\* ---------------------------------------------------------------- C19
\* The value the statement gives a stroke input: the number if it is one within range.
Lenient(raw) == IF raw.isdigit /\ raw.val \in 1..StrokeMax THEN raw.val ELSE None
LenientOnHole(o, rid, h, raw) ==
    o.resp.status # 500 /\ StrokeAt(o.db.scores, <<rid, h>>) = Lenient(raw)
LenientOnCard(o, rid, raw) ==
    /\ LenientOnHole(o, rid, 1, raw)
    /\ \A h \in 2..HoleCount : StrokeAt(o.db.scores, <<rid, h>>) = 4

\* C19 (input leniency): a stroke input that is non-numeric or out of range is stored as
\* null and never aborts the request; the other holes of the same card are still saved.
C19_LenientStrokes ==
    \A r \in OpenRounds : \A raw \in WideRaws :
        /\ LenientOnCard(CardPost("scorer", "save", WideForm(raw)), r.id, raw)
        /\ \A h \in WideHoles : LenientOnHole(HolePost("scorer", r.id, h, raw, 1), r.id, h, raw)

\* ---------------------------------------------------------------- C13
\* C13 (the lock under interleaving): under every interleaving of a save request with a
\* finalize request on the same round, no Score or DriveUsed write of the round is committed
\* once finalized_at is set.
C13_NoWriteAfterLock ==
    [][FinalRounds # {} => scores' = scores /\ drives' = drives]_vars

\* ---------------------------------------------------------------- C14
Done(s, kind) == pending[s].pc = "done" /\ "kind" \in DOMAIN pending[s] /\ pending[s].kind = kind
\* The hole as the request's card has it.
HoleOf(f, h) == <<ParseStrokes(f.strokes[h]), f.drive[h]>>
StoredHole(rid, h) == <<StrokeAt(scores, <<rid, h>>), DriveAt(drives, <<rid, h>>)>>

WritesOwnStrokes(s) ==
    pending[s].pc = "strokes" /\ pending'[s].pc = "drive" =>
        /\ scores'[<<pending[s].round, pending[s].hole>>] = ParseStrokes(pending[s].form.strokes[pending[s].hole])
        /\ \A k \in DOMAIN scores \ {<<pending[s].round, pending[s].hole>>} : scores'[k] = scores[k]
        /\ drives' = drives
WritesOwnDrive(s) ==
    pending[s].pc = "drive" /\ pending'[s].pc # "drive" =>
        /\ DriveAt(drives', <<pending[s].round, pending[s].hole>>) = pending[s].form.drive[pending[s].hole]
        /\ \A k \in (DOMAIN drives \cup DOMAIN drives') \ {<<pending[s].round, pending[s].hole>>} :
              DriveAt(drives', k) = DriveAt(drives, k)
        /\ scores' = scores
Writing(s) == pending[s].pc \in {"strokes", "drive"}

DriveRequired(o, k, d) ==
    /\ d = None => SameRows(o)
    /\ StrokeAt(o.db.scores, k) # StrokeAt(scores, k) => d # None /\ DriveAt(o.db.drives, k) = d

\* C21 (per-hole mode forbids drive-less saves): a per-hole request without a drive
\* selection stores nothing, and no per-hole request stores a stroke value for a hole
\* without recording that hole's drive.
C21_DriveRequired ==
    \A u \in Users, r \in rounds, h \in HoleArgs, raw \in RawStrokes, d \in DriveArgs :
        DriveRequired(HolePost(u, r.id, h, raw, d), <<r.id, h>>, d)

\* ------------------------------------------------- hole by hole, in order
\* <int:hole> of the per-hole URL: an ordinary hole, the last hole of each nine, the
\* hole before the last, and a number past the card.
NavHoles == {1, FrontNine, HoleCount - 1, HoleCount, HoleCount + 1}

NextNav ==
    \/ TeamScorecardGet("scorer")
    \/ TeamScorecardPost("admin", "finalize", StepFormA)
    \/ TeamScorecardPost("admin", "unlock", BlankForm)
    \/ \E u \in {"scorer", "viewer"}, h \in NavHoles, d \in DriveArgs : HoleScoreSave(u, 1, h, Digits(4), d)

SpecNav == Init /\ [][NextNav]_vars

\* ---------------------------------------------------------------- C22
\* Where a per-hole save sends the browser: on when it is accepted, back when it is not.
Navigates(o, u, r, h, d) ==
    LET accepted == MayWrite(u) /\ r.finalized_at = None /\ d # None /\ d \in teamPlayers
    IN  /\ o.resp.status = 302
        /\ accepted /\ h \in {9, 18} => o.resp.next = Card
        /\ accepted /\ h \notin {9, 18} => o.resp.next = (IF h + 1 <= 18 THEN h + 1 ELSE 18)
        /\ ~accepted => o.resp.next = h

\* C22 (sequential navigation): after a successful per-hole save of hole h the next page
\* is the full card when h is 9 or 18 and otherwise the per-hole page of min(h+1, 18);
\* a rejected save (locked, no drive, invalid drive) stays on hole h.
C22_SequentialNavigation ==
    \A u \in Users, r \in rounds, h \in NavHoles, raw \in RawStrokes, d \in DriveArgs :
        MayView(u) => Navigates(HolePost(u, r.id, h, raw, d), u, r, h, d)

\* Hole 9 was saved hole by hole (hole 10 has no row yet) and saving it again leads to
\* the card, while a save on the locked or drive-less path would stay.
C22_Witness ==
    /\ <<1, FrontNine>> \in DOMAIN drives
    /\ <<1, FrontNine + 1>> \notin DOMAIN scores
    /\ HolePost("scorer", 1, FrontNine, Digits(4), 1).resp.next = Card
    /\ HolePost("scorer", 1, FrontNine, Digits(4), None).resp.next = FrontNine

\* ====================================================== Leaderboard Engine
\* The teams of the event and Team.name of each, a string as its code points.
Teams == {"T1", "T2", "T3"}
TeamName == [t \in Teams |-> IF t = "T1" THEN <<2, 1>> ELSE IF t = "T2" THEN <<1>> ELSE <<1, 2>>]
\* Python's < on str: the first differing code point decides, a proper prefix is smaller.
StrLess(a, b) ==
    \E i \in 1..Len(b) :
        /\ \A j \in 1..(i - 1) : j <= Len(a) /\ a[j] = b[j]
        /\ i > Len(a) \/ a[i] < b[i]

\* Optional[int] and Optional[str]: None is the empty set, a value its singleton.
Nothing == {}
Just(n) == {n}
Val(x) == CHOOSE n \in x : TRUE
\* x or 0
OrZero(x) == IF x = Nothing THEN 0 ELSE Val(x)

\* Hole rows of the configured course (number -> par) and the legacy CoursePar rows.
HolePar == [c \in {1} |-> (1 :> 4) @@ (2 :> 4)]
CourseParRows == (1 :> 5)
par_by_hole(settings) ==
    IF settings.scoring_course_id # None THEN HolePar[settings.scoring_course_id] ELSE CourseParRows
\* Variant of ParGet: a hole without a par row counts as a par four.
ParGetFour(pars, h) == IF h \in DOMAIN pars THEN pars[h] ELSE 4
\* par_by_hole.get(h, 0)
ParGet(pars, h) == IF h \in DOMAIN pars THEN pars[h] ELSE 0

RECURSIVE Sum(_, _)
Sum(f, S) == IF S = {} THEN 0 ELSE LET x == CHOOSE y \in S : TRUE IN f[x] + Sum(f, S \ {x})

\* Score.objects.filter(round=r, strokes__isnull=False): the holes of `scored`
ScoredHoles(sc, rid) == {k[2] : k \in {j \in DOMAIN sc : j[1] = rid /\ sc[j] # None}}
strokes_sum(sc, rid, scored) == Sum([h \in scored |-> sc[<<rid, h>>]], scored)
\* Variant of par_sum: the par of the whole table, played or not.
par_sum_all(pars, scored) == Sum(pars, DOMAIN pars)
par_sum(pars, scored) == Sum([h \in scored |-> ParGet(pars, h)], scored)
\* Sum(Case(When(...))): NULL when no row contributes a value
SumOrNull(sc, rid, holes) == IF holes = {} THEN Nothing ELSE Just(strokes_sum(sc, rid, holes))
out_total(sc, rid) == SumOrNull(sc, rid, {h \in ScoredHoles(sc, rid) : h <= FrontNine})
\* Variant of in_total: the back nine taken from hole 9 on.
in_total_from_nine(sc, rid) == SumOrNull(sc, rid, {h \in ScoredHoles(sc, rid) : h >= FrontNine})
in_total(sc, rid) == SumOrNull(sc, rid, {h \in ScoredHoles(sc, rid) : h >= FrontNine + 1})

\* str(n) of an integer, a string as its characters
DigitChars == <<"0", "1", "2", "3", "4", "5", "6", "7", "8", "9">>
RECURSIVE StrNat(_)
StrNat(n) == IF n < 10 THEN <<DigitChars[n + 1]>> ELSE StrNat(n \div 10) \o <<DigitChars[(n % 10) + 1]>>
StrInt(n) == IF n < 0 THEN <<"-">> \o StrNat(-n) ELSE StrNat(n)

\* Variant of fmt_to_par: str(n) for every value.
fmt_to_par_plain(n) == IF n = Nothing THEN Nothing ELSE Just(StrInt(Val(n)))
fmt_to_par(n) ==
    IF n = Nothing THEN Nothing
    ELSE IF Val(n) = 0 THEN Just(<<"E">>)
    ELSE IF Val(n) > 0 THEN Just(<<"+">> \o StrInt(Val(n))) ELSE Just(StrInt(Val(n)))

\* Variant of HasScored: the sums are taken whether or not a hole is scored.
HasScoredAlways(scored) == TRUE
\* if scored:
HasScored(scored) == scored # {}

\* One row of the table, before ranking.
RowOf(r, scored, out, in, to_par_val) ==
    [team_id |-> r.team, team_name |-> TeamName[r.team], out |-> out, in |-> in,
     total |-> IF HasScored(scored) THEN Just(OrZero(out) + OrZero(in)) ELSE Nothing,
     to_par |-> to_par_val, to_par_str |-> fmt_to_par(to_par_val),
     holes_entered |-> Cardinality(scored)]
ToParVal(sc, rid, pars, scored) ==
    IF HasScored(scored) THEN Just(strokes_sum(sc, rid, scored) - par_sum(pars, scored)) ELSE Nothing
RowScored(sc, r, pars, scored) ==
    RowOf(r, scored, out_total(sc, r.id), in_total(sc, r.id), ToParVal(sc, r.id, pars, scored))
BoardRow(sc, r, pars) == RowScored(sc, r, pars, ScoredHoles(sc, r.id))

\* The sort key: None goes last
SortSentinel == 1000000000
SortKey(x) ==
    <<IF x.to_par = Nothing THEN 1 ELSE 0, IF x.to_par # Nothing THEN Val(x.to_par) ELSE SortSentinel,
      IF x.total = Nothing THEN 1 ELSE 0, IF x.total # Nothing THEN Val(x.total) ELSE SortSentinel>>
TupleLess(a, b) == \E i \in 1..Len(a) : (\A j \in 1..(i - 1) : a[j] = b[j]) /\ a[i] < b[i]
\* Variant of KeyLess: the key stops at the total.
KeyLessNoName(a, b) == TupleLess(SortKey(a), SortKey(b))
KeyLess(a, b) ==
    \/ TupleLess(SortKey(a), SortKey(b))
    \/ SortKey(a) = SortKey(b) /\ StrLess(a.team_name, b.team_name)

\* rows.sort(key=...): a stable sort, each row placed behind the rows that are not greater
InsertAt(sorted, x, n) == SubSeq(sorted, 1, n) \o <<x>> \o SubSeq(sorted, n + 1, Len(sorted))
InsertRow(sorted, x) == InsertAt(sorted, x, Cardinality({i \in 1..Len(sorted) : ~KeyLess(x, sorted[i])}))
RECURSIVE SortRows(_)
SortRows(rows) ==
    IF rows = <<>> THEN <<>> ELSE InsertRow(SortRows(SubSeq(rows, 1, Len(rows) - 1)), rows[Len(rows)])

\* Variant of rank_value: a row with neither value ranks as 0.
rank_value_zero(row) ==
    IF row.to_par # Nothing THEN row.to_par ELSE IF row.total # Nothing THEN row.total ELSE Just(0)
rank_value(row) == IF row.to_par # Nothing THEN row.to_par ELSE row.total
\* freq = Counter(vals)
freq(rows, val) == Cardinality({i \in DOMAIN rows : rank_value(rows[i]) = val})
\* The row that set last_val before row i (0: none yet)
Latest(before) == IF before = {} THEN 0 ELSE CHOOSE j \in before : \A k \in before : k <= j
LastRanked(rows, i) == Latest({j \in 1..(i - 1) : rank_value(rows[j]) # Nothing})
\* Variant of Place: the number of distinct values up to the row.
RECURSIVE PlaceDense(_, _)
PlaceDenseAfter(rows, i, j) ==
    IF j = 0 THEN 1
    ELSE IF rank_value(rows[j]) # rank_value(rows[i]) THEN PlaceDense(rows, j) + 1
    ELSE PlaceDense(rows, j)
PlaceDense(rows, i) == PlaceDenseAfter(rows, i, LastRanked(rows, i))
\* place, as the loop leaves it at row i: idx of the first row of the run of equal values
RECURSIVE Place(_, _)
PlaceAfter(rows, i, j) ==
    IF j = 0 \/ rank_value(rows[j]) # rank_value(rows[i]) THEN i ELSE Place(rows, j)
Place(rows, i) == PlaceAfter(rows, i, LastRanked(rows, i))
RankOn(rows, i, val) ==
    IF val = Nothing THEN Nothing
    ELSE IF freq(rows, val) > 1 THEN Just(<<"T", "-">> \o StrInt(Place(rows, i)))
    ELSE Just(StrInt(Place(rows, i)))
Rank(rows, i) == RankOn(rows, i, rank_value(rows[i]))

\* The iteration orders of Round.objects.filter(event_date=...): the query has no order_by
QueryOrders(rs, event_date) ==
    LET found == {r \in rs : r.event_date = event_date}
    IN  {q \in [1..Cardinality(found) -> found] : \A i, j \in DOMAIN q : q[i] = q[j] => i = j}

\* _leaderboard_rows, once the settings are loaded; `order` is the order the query yields
\* row["rank"] = ...
WithRank(row, rank) ==
    [team_id |-> row.team_id, team_name |-> row.team_name, out |-> row.out, in |-> row.in,
     total |-> row.total, to_par |-> row.to_par, to_par_str |-> row.to_par_str,
     holes_entered |-> row.holes_entered, rank |-> rank]
RECURSIVE AssignRanks(_, _)
AssignRanks(rows, idx) ==
    IF idx > Len(rows) THEN <<>>
    ELSE <<WithRank(rows[idx], Rank(rows, idx))>> \o AssignRanks(rows, idx + 1)
_leaderboard_rows(db, settings, order) ==
    AssignRanks(SortRows([i \in DOMAIN order |-> BoardRow(db.scores, order[i], par_by_hole(settings))]), 1)

Board(es, status, rows) == [es |-> es, resp |-> [status |-> status, rows |-> rows]]
\* The row EventSettings.load() returns
Loaded(es) == CHOOSE e \in EventSettingsLoad(es) : e.pk = 1

leaderboard_page(es, db, u, order) ==
    IF ~Loaded(es).leaderboard_public /\ ~IsStaff(u)
    THEN Board(EventSettingsLoad(es), 403, <<>>)
    ELSE Board(EventSettingsLoad(es), 200, _leaderboard_rows(db, Loaded(es), order))

leaderboard_partial(es, db, u, order) ==
    Board(EventSettingsLoad(es), 200, _leaderboard_rows(db, Loaded(es), order))

\* ---------------------------------------------------- leaderboard inputs
BoardHoles == {1, 2}
BoardStrokes == {3, 4, 5}
Courses == {None, 1}
\* The teams reach the first tee in this order, and play their holes in order.
TeeOrder == <<"T3", "T1", "T2">>
\* How far round the course each team has come: the last team out is on its first hole.
HolesReached == [t \in Teams |-> IF t = TeeOrder[Len(TeeOrder)] THEN {1} ELSE BoardHoles]
\* The logins that ask for the leaderboard: one that is staff, one that is not.
BoardUsers == {"admin", "viewer"}

\* No request has been served yet: no EventSettings row, no Round.
InitBoard ==
    /\ teamPlayers = {1, 2}
    /\ rounds = {}
    /\ scores = << >>
    /\ drives = << >>
    /\ clock = 0
    /\ pending = [s \in Slots |-> Idle]
    /\ eventSettings = {}
    /\ teams = Teams
    /\ players = PlayerIds
    /\ tokens = << >>
    /\ sessions = << >>

\* The first scorecard request of a team: current_event_date() and Round.get_or_create
BoardOpen(t) ==
    /\ ~ \E r \in rounds : r.team = t
    /\ t = TeeOrder[Cardinality(rounds) + 1]
    /\ rounds' = rounds \cup {[RoundRow(NextRoundId(rounds), None, NoUser) EXCEPT !.team = t]}
    /\ eventSettings' = EventSettingsLoad(eventSettings)
    /\ UNCHANGED <<teamPlayers, scores, drives, clock, pending, otherTables>>

\* A stroke count saved on a team's card
BoardScore(t, h, n) ==
    /\ \E r \in rounds :
          /\ r.team = t
          /\ h \in HolesReached[t]
          /\ h = 1 \/ <<r.id, h - 1>> \in DOMAIN scores
          /\ scores' = ScoreSave(ScoreGetOrCreate(scores, r.id, h), r.id, h, n)
    /\ UNCHANGED <<teamPlayers, rounds, drives, clock, pending, eventSettings, otherTables>>

\* The administrator edits the settings row.
SetPublic(b) ==
    /\ eventSettings' = {[Loaded(eventSettings) EXCEPT !.leaderboard_public = b]}
    /\ UNCHANGED <<teamPlayers, rounds, scores, drives, clock, pending, otherTables>>

SetCourse(c) ==
    /\ eventSettings' = {[Loaded(eventSettings) EXCEPT !.scoring_course_id = c]}
    /\ UNCHANGED <<teamPlayers, rounds, scores, drives, clock, pending, otherTables>>

BoardCommit(out) ==
    /\ eventSettings' = out.es
    /\ UNCHANGED <<teamPlayers, rounds, scores, drives, clock, pending, otherTables>>

LeaderboardPage(u) ==
    \E q \in QueryOrders(rounds, current_event_date) : BoardCommit(leaderboard_page(eventSettings, Db, u, q))

LeaderboardPartial(u) ==
    \E q \in QueryOrders(rounds, current_event_date) : BoardCommit(leaderboard_partial(eventSettings, Db, u, q))

NextBoard ==
    \/ \E t \in Teams : BoardOpen(t)
    \/ \E t \in Teams, h \in BoardHoles, n \in BoardStrokes : BoardScore(t, h, n)
    \/ \E b \in BOOLEAN : SetPublic(b)
    \/ \E c \in Courses : SetCourse(c)
    \/ \E u \in BoardUsers : LeaderboardPage(u)
    \/ \E u \in BoardUsers : LeaderboardPartial(u)

SpecBoard == InitBoard /\ [][NextBoard]_vars

\* ------------------------------------------------ the leaderboard, as asked
\* The table an administrator is shown when the query yields the rounds in order q.
PageRows(q) == leaderboard_page(eventSettings, Db, "admin", q).resp.rows
Orders == QueryOrders(rounds, current_event_date)
RoundOf(row) == CHOOSE r \in rounds : r.team = row.team_id /\ r.event_date = current_event_date
\* The holes of a round that carry a stroke count, and the par table in force.
Played(r) == {k[2] : k \in {j \in DOMAIN scores : j[1] = r.id /\ scores[j] # None}}
ParTable == par_by_hole(Loaded(eventSettings))

\* ---------------------------------------------------------------- C23
\* Strokes against par, hole by hole, over the holes played.
AgainstPar(r) == Sum([h \in Played(r) |-> scores[<<r.id, h>>] - ParTable[h]], Played(r))

ToParRight(rows) ==
    \A i \in DOMAIN rows :
        Played(RoundOf(rows[i])) # {} /\ Played(RoundOf(rows[i])) \subseteq DOMAIN ParTable
            => rows[i].to_par = Just(AgainstPar(RoundOf(rows[i])))

\* C23 (to-par correctness): for a round with at least one scored hole, to_par is the sum
\* of strokes over the scored holes minus the sum of par over exactly those holes; holes
\* not scored contribute to neither sum. Stated for rounds whose scored holes all have a par.
C23_ToPar == \A q \in Orders : ToParRight(PageRows(q))

\* Scored {(1,4),(2,5)} against pars {1:4, 2:4} is shown as 1 over, next to a round with
\* only hole 1 scored.
C23_Witness ==
    /\ ParTable = (1 :> 4) @@ (2 :> 4)
    /\ \E r1, r2 \in rounds :
          /\ Played(r1) = {1, 2} /\ scores[<<r1.id, 1>>] = 4 /\ scores[<<r1.id, 2>>] = 5
          /\ Played(r2) = {1}
          /\ \E q \in Orders : \E i \in DOMAIN PageRows(q) :
                PageRows(q)[i].team_id = r1.team /\ PageRows(q)[i].to_par = Just(1)

\* ---------------------------------------------------------------- C24
MaxToPar == 12
\* The number a run of decimal digits stands for, and whether it is written canonically.
RECURSIVE ParseNat(_)
ParseNat(t) ==
    IF t = <<>> THEN 0
    ELSE 10 * ParseNat(SubSeq(t, 1, Len(t) - 1)) + (CHOOSE d \in 0..9 : DigitChars[d + 1] = t[Len(t)])
IsNumeral(t) ==
    /\ t # <<>>
    /\ \A i \in DOMAIN t : \E d \in 0..9 : DigitChars[d + 1] = t[i]
    /\ Len(t) > 1 => t[1] # "0"
Shown(n, str) ==
    IF n = Nothing THEN str = Nothing
    ELSE /\ str # Nothing
         /\ Val(n) = 0 => Val(str) = <<"E">>
         /\ Val(n) > 0 => /\ Head(Val(str)) = "+"
                          /\ IsNumeral(Tail(Val(str))) /\ ParseNat(Tail(Val(str))) = Val(n)
         /\ Val(n) < 0 => /\ Head(Val(str)) = "-"
                          /\ IsNumeral(Tail(Val(str))) /\ ParseNat(Tail(Val(str))) = -Val(n)

ShownRight(rows) == \A i \in DOMAIN rows : Shown(rows[i].to_par, rows[i].to_par_str)

\* C24 (to-par display format): 0 is shown as "E", a positive n as "+n", a negative value
\* as the signed integer string, and an absent value stays absent.
C24_ToParFormat ==
    /\ \A q \in Orders : ShownRight(PageRows(q))
    /\ \A n \in (0 - MaxToPar)..MaxToPar : Shown(Just(n), fmt_to_par(Just(n)))

\* One table shows a round under par, one level, one over and one with nothing scored.
C24_Witness ==
    \E q \in Orders :
        /\ Len(PageRows(q)) = 3
        /\ PageRows(q)[1].to_par_str = Just(<<"-", "2">>)
        /\ PageRows(q)[2].to_par_str \in {Just(<<"E">>), Just(<<"+", "1">>)}
        /\ PageRows(q)[3].to_par_str = Nothing

\* ---------------------------------------------------------------- C25
HasPlayed(r) == Played(r) # {}
UnscoredLast(rows) ==
    \A i \in DOMAIN rows :
        ~HasPlayed(RoundOf(rows[i])) =>
            /\ rows[i].to_par = Nothing /\ rows[i].total = Nothing
            /\ \A j \in DOMAIN rows : HasPlayed(RoundOf(rows[j])) => j < i

\* C25 (unscored rounds): a round with no scored hole has both to_par and total absent
\* (not zero) and is placed after every round that has at least one scored hole.
C25_UnscoredLast == \A q \in Orders : UnscoredLast(PageRows(q))

\* The query yields an unscored round first; the table shows it last, below a round that
\* is over par.
C25_Witness ==
    \E q \in Orders :
        /\ Len(q) = 3 /\ ~HasPlayed(q[1])
        /\ PageRows(q)[2].to_par = Just(1)
        /\ PageRows(q)[3].team_id = q[1].team /\ PageRows(q)[3].total = Nothing

\* ---------------------------------------------------------------- C26
\* x before y, absent last
OptLess(x, y) == x # Nothing /\ (y = Nothing \/ Val(x) < Val(y))
\* a is not greater than b: by to_par, then by total, then by team name
NotGreater(a, b) ==
    \/ OptLess(a.to_par, b.to_par)
    \/ /\ a.to_par = b.to_par
       /\ \/ OptLess(a.total, b.total)
          \/ a.total = b.total /\ ~StrLess(b.team_name, a.team_name)
InOrder(rows) == \A i \in 1..(Len(rows) - 1) : NotGreater(rows[i], rows[i + 1])
DistinctNames == \A r1, r2 \in rounds : r1 # r2 => TeamName[r1.team] # TeamName[r2.team]

\* The tables of all the orders the query may yield.
OrderedAlike(tables) ==
    /\ \A rows \in tables : InOrder(rows)
    /\ DistinctNames => Cardinality(tables) <= 1

\* C26 (leaderboard order): rows are sorted ascending by to_par (absent last), then by
\* total (absent last), then by team name: of two adjacent rows the earlier one is not
\* greater, and with distinct team names every order of the query gives the same table.
C26_LeaderboardOrder == OrderedAlike({PageRows(q) : q \in Orders})

\* Three rounds level on to_par: two of them level on total as well, so the name decides
\* between them, and the query yields them in the opposite order.
C26_Witness ==
    \E q \in Orders :
        /\ Len(q) = 3
        /\ PageRows(q)[1].to_par # Nothing
        /\ PageRows(q)[1].to_par = PageRows(q)[3].to_par
        /\ PageRows(q)[1].total = PageRows(q)[2].total
        /\ Val(PageRows(q)[2].total) < Val(PageRows(q)[3].total)
        /\ q[1].team = PageRows(q)[3].team_id /\ q[2].team = PageRows(q)[2].team_id

\* ---------------------------------------------------------------- C27
\* The value a row is ranked on: to_par if present, else total.
RankedOn(row) == IF row.to_par # Nothing THEN row.to_par ELSE row.total
Better(rows, i) == {j \in DOMAIN rows : RankedOn(rows[j]) # Nothing /\ Val(RankedOn(rows[j])) < Val(RankedOn(rows[i]))}
Level(rows, i) == {j \in DOMAIN rows : RankedOn(rows[j]) = RankedOn(rows[i])}
\* The rank string reads as the position, with the prefix T- exactly when asked for.
Numbered(digits, position) == IsNumeral(digits) /\ ParseNat(digits) = position
ReadsAs(rank, tied, position) ==
    /\ rank # Nothing
    /\ IF tied
       THEN /\ Len(Val(rank)) > 2 /\ SubSeq(Val(rank), 1, 2) = <<"T", "-">>
            /\ Numbered(SubSeq(Val(rank), 3, Len(Val(rank))), position)
       ELSE Numbered(Val(rank), position)
PlacedAt(rows, i, position) ==
    /\ ReadsAs(rows[i].rank, Cardinality(Level(rows, i)) > 1, position)
    /\ position \in Level(rows, i)
    /\ \A j \in Level(rows, i) : position <= j
CompetitionRanked(rows) ==
    \A i \in DOMAIN rows :
        RankedOn(rows[i]) # Nothing => PlacedAt(rows, i, 1 + Cardinality(Better(rows, i)))

\* C27 (rank assignment): standard competition ranking on the rank value (to_par if
\* present, else total): rows with the same value share the rank whose position is the
\* index of the first row with that value, which is 1 + the number of rows with a strictly
\* better value; it is written "T-{position}" iff more than one row has the value.
C27_CompetitionRanking == \A q \in Orders : CompetitionRanked(PageRows(q))

\* to_par [-2, -2, +1] is ranked "T-1", "T-1", "3".
C27_Witness ==
    \E q \in Orders :
        /\ Len(q) = 3
        /\ PageRows(q)[1].to_par = Just(0 - 2) /\ PageRows(q)[1].rank = Just(<<"T", "-", "1">>)
        /\ PageRows(q)[2].to_par = Just(0 - 2) /\ PageRows(q)[2].rank = Just(<<"T", "-", "1">>)
        /\ PageRows(q)[3].to_par = Just(1) /\ PageRows(q)[3].rank = Just(<<"3">>)

\* ---------------------------------------------------------------- C28
\* The table of the same rounds without those that have nothing scored.
ScoredOnly(q) == SelectSeq(q, HasPlayed)
SameRanks(rows, fewer) ==
    \A i \in DOMAIN rows :
        IF RankedOn(rows[i]) = Nothing THEN rows[i].rank = Nothing
        ELSE \E j \in DOMAIN fewer : fewer[j].team_id = rows[i].team_id /\ fewer[j].rank = rows[i].rank

\* C28 (unranked rows): a row with neither to_par nor total gets rank None and is not
\* counted in the tie frequencies: with or without such rows every ranked row has the same
\* position and the same T- prefix.
C28_UnrankedNotCounted == \A q \in Orders : SameRanks(PageRows(q), PageRows(ScoredOnly(q)))

\* One round is level with par and alone on its value, beside two rounds with nothing scored.
C28_Witness ==
    \E q \in Orders :
        /\ Len(q) = 3 /\ Len(ScoredOnly(q)) = 1
        /\ PageRows(q)[1].to_par = Just(0) /\ PageRows(q)[1].rank = Just(<<"1">>)
        /\ PageRows(q)[2].rank = Nothing /\ PageRows(q)[3].rank = Nothing

\* ---------------------------------------------------------------- C29
\* C29 (leaderboard reads only): a leaderboard request, the full page or the partial
\* table, leaves every stored row unchanged, in every state including the first request
\* ever made.
C29_LeaderboardReadOnly ==
    \A u \in BoardUsers, q \in Orders :
        /\ leaderboard_page(eventSettings, Db, u, q).es = eventSettings
        /\ leaderboard_partial(eventSettings, Db, u, q).es = eventSettings

\* ---------------------------------------------------------------- C30
\* C30 (visibility gate): while the leaderboard-public flag is off, neither the full page
\* nor the partial table returns leaderboard rows to a viewer who is not an administrator.
C30_VisibilityGate ==
    \A u \in BoardUsers, q \in Orders :
        ~Loaded(eventSettings).leaderboard_public /\ ~IsStaff(u) =>
            /\ leaderboard_page(eventSettings, Db, u, q).resp.rows = <<>>
            /\ leaderboard_partial(eventSettings, Db, u, q).resp.rows = <<>>

\* ================================================== deleting rows (admin)
\* The rows of a table that are left when the rows with these keys are deleted.
Without(table, keys) == [k \in DOMAIN table \ keys |-> table[k]]
\* Score.round and DriveUsed.score are on_delete=CASCADE: the Score rows of the rounds
\* and the DriveUsed rows of those Scores go with them.
KeysOfRounds(table, rids) == {k \in DOMAIN table : k[1] \in rids}
RoundsDelete(db, rids) ==
    [rounds |-> {r \in db.rounds : r.id \notin rids},
     scores |-> Without(db.scores, KeysOfRounds(db.scores, rids)),
     drives |-> Without(db.drives, KeysOfRounds(db.drives, rids))]
\* Round.team is on_delete=CASCADE.
TeamDelete(db, t) == RoundsDelete(db, {r.id : r \in {x \in db.rounds : x.team = t}})
\* DriveUsed.score is on_delete=CASCADE.
ScoreDelete(db, k) == [db EXCEPT !.scores = Without(db.scores, {k}), !.drives = Without(db.drives, {k})]
\* Variant of PlayerProtected: the reference does not protect the player.
PlayerProtectedNever(dr, p) == FALSE
\* DriveUsed.player is on_delete=PROTECT: the delete raises ProtectedError.
PlayerProtected(dr, p) == \E k \in DOMAIN dr : dr[k] = p

DeletedHoles == {1, 2}
DeletedPlayers == {1, 2}

CommitDb(db) == rounds' = db.rounds /\ scores' = db.scores /\ drives' = db.drives

DeleteTeam(t) ==
    /\ t \in teams
    /\ teams' = teams \ {t}
    /\ teamPlayers' = IF t = TeamId THEN {} ELSE teamPlayers
    /\ CommitDb(TeamDelete(Db, t))
    /\ UNCHANGED <<clock, pending, eventSettings, players, tokens, sessions>>

DeleteScore(k) ==
    /\ k \in DOMAIN scores
    /\ CommitDb(ScoreDelete(Db, k))
    /\ UNCHANGED <<teamPlayers, clock, pending, eventSettings, otherTables>>

DeletePlayer(p) ==
    /\ p \in players
    /\ IF PlayerProtected(drives, p)
       THEN UNCHANGED <<players, teamPlayers>>
       ELSE players' = players \ {p} /\ teamPlayers' = teamPlayers \ {p}
    /\ UNCHANGED <<rounds, scores, drives, clock, pending, eventSettings, teams, tokens, sessions>>

\* get_object_or_404(Team, pk=team_id): the scorecard of a deleted team is a 404.
NextDelete ==
    \/ TeamId \in teams /\ TeamScorecardGet("admin")
    \/ TeamId \in teams /\ TeamScorecardPost("admin", "save", StepFormA)
    \/ \E h \in DeletedHoles, raw \in RawStrokes, d \in DriveArgs \cup DeletedPlayers :
          HoleScoreSave("admin", 1, h, raw, d)
    \/ \E t \in Teams : DeleteTeam(t)
    \/ \E h \in DeletedHoles : DeleteScore(<<1, h>>)
    \/ \E p \in DeletedPlayers : DeletePlayer(p)

SpecDelete == Init /\ [][NextDelete]_vars

\* ---------------------------------------------------------------- C31
\* Every reference names a row that exists.
References ==
    /\ \A k \in DOMAIN drives : k \in DOMAIN scores /\ drives[k] \in players
    /\ \A k \in DOMAIN scores : \E r \in rounds : r.id = k[1]
    /\ \A r \in rounds : r.team \in teams
\* What a delete takes with it, and what it is refused for.
TeamGoneWith(db, t) ==
    /\ ~ \E r \in db.rounds : r.team = t
    /\ \A k \in DOMAIN db.scores \cup DOMAIN db.drives : \E r \in db.rounds : r.id = k[1]
ScoreGoneWith(db, k) == k \notin DOMAIN db.scores /\ k \notin DOMAIN db.drives
Referenced(p) == \E k \in DOMAIN drives : drives[k] = p

\* C31 (ownership and referential integrity): deleting a Team deletes its Rounds, their
\* Scores and those Scores' DriveUsed; deleting a Score deletes its DriveUsed; deleting a
\* Player referenced by a DriveUsed is refused; hence each DriveUsed has an existing Score
\* and Player and each Score an existing Round.
C31_ReferentialIntegrity ==
    /\ [](/\ References
          /\ \A t \in teams : TeamGoneWith(TeamDelete(Db, t), t)
          /\ \A k \in DOMAIN scores : ScoreGoneWith(ScoreDelete(Db, k), k))
    /\ [][\A p \in DeletedPlayers : Referenced(p) /\ p \in players => p \in players']_vars

\* The team has been deleted and its card with it, and a player after that.
C31_Witness == teams = {} /\ scores = << >> /\ players = PlayerIds \ {1}

\* ---------------------------------------------------------------- C32
\* A view request writes no Score row: the rows it leaves have the Score keys, the
\* stroke values and the DriveUsed rows it found, and a Round more only when the
\* team had none for the event date.
ViewOnly(o) ==
    /\ DOMAIN o.db.scores = DOMAIN scores
    /\ o.db.scores = scores
    /\ o.db.drives = drives
    /\ o.db.rounds # rounds => RoundLookup(rounds) = {} /\ Cardinality(o.db.rounds) = Cardinality(rounds) + 1

\* C32 (lazy creation): a GET of the scorecard page or of the per-hole page creates no
\* Score row and changes no stroke value or DriveUsed; a Round row is created only on
\* the first access to the team's scorecard for the current event date.
C32_LazyCreation ==
    \A u \in Users :
        /\ ViewOnly(CardGet(u))
        /\ \A r \in rounds, h \in HoleArgs : ViewOnly(HoleGet(u, r.id, h))

\* ---------------------------------------------------------------- C36
\* C36 (finalized card is complete): with requests executed one at a time, in every
\* reachable state a FINAL round has a non-null stroke count on each of holes 1-18.
C36_FinalCardComplete ==
    \A r \in FinalRounds : \A h \in 1..18 : StrokeAt(scores, <<r.id, h>>) # None

\* ---------------------------------------------------------------- C38
\* The scored holes of a round the par table has no entry for, and those it has one for.
MissingPar(r) == Played(r) \ DOMAIN ParTable
WithPar(r) == Played(r) \cap DOMAIN ParTable
StrokesOn(r, holes) == Sum([h \in holes |-> scores[<<r.id, h>>]], holes)
AgainstParOn(r, holes) == Sum([h \in holes |-> scores[<<r.id, h>>] - ParTable[h]], holes)
ParAbsentRow(row, r) ==
    MissingPar(r) # {} =>
        /\ row.to_par # Nothing
        /\ row.to_par = Just(StrokesOn(r, MissingPar(r)) + AgainstParOn(r, WithPar(r)))
ParAbsentRows(rows) == \A i \in DOMAIN rows : ParAbsentRow(rows[i], RoundOf(rows[i]))

\* C38 (missing par): a scored hole the resolved par table has no entry for contributes
\* par 0, so to_par is still present and equals the strokes of such holes plus the
\* to-par of the holes that do have a par.
C38_MissingParCountsZero ==
    \A q \in Orders : ParAbsentRows(PageRows(q))

\* No course configured and a legacy table with hole 1 only: 4 on hole 1 (par 5) and 5 on
\* hole 2 (no par) is shown as 4 over.
C38_Witness ==
    /\ Loaded(eventSettings).scoring_course_id = None
    /\ \E r \in rounds :
          /\ Played(r) = {1, 2} /\ scores[<<r.id, 1>>] = 4 /\ scores[<<r.id, 2>>] = 5
          /\ \E q \in Orders : \E i \in DOMAIN PageRows(q) :
                PageRows(q)[i].team_id = r.team /\ PageRows(q)[i].to_par = Just(4)

\* ============================================ Leaderboard rows, both nines
\* The last hole of the front nine and the first of the back nine; a stroke field that
\* was cleared (NULL), a zero and a four.
RowHoles == {FrontNine, FrontNine + 1}
RowValues == {None, 0, 4}
\* The last team out has not scored yet.
RowsReached == [t \in Teams |-> IF t = TeeOrder[Len(TeeOrder)] THEN {} ELSE RowHoles]

\* score.strokes = ...; score.save() on a team's card
RowsScore(t, h, n) ==
    /\ \E r \in rounds :
          /\ r.team = t
          /\ h \in RowsReached[t]
          /\ scores' = ScoreSave(ScoreGetOrCreate(scores, r.id, h), r.id, h, n)
    /\ UNCHANGED <<teamPlayers, rounds, drives, clock, pending, eventSettings, otherTables>>

NextRows ==
    \/ \E t \in Teams : BoardOpen(t)
    \/ \E t \in Teams, h \in RowHoles, n \in RowValues : RowsScore(t, h, n)
    \/ \E u \in BoardUsers : LeaderboardPage(u)

SpecRows == InitBoard /\ [][NextRows]_vars

\* ---------------------------------------------------------------- C37
RowConsistent(row, r) ==
    /\ row.to_par = Nothing <=> row.total = Nothing
    /\ row.total = Nothing <=> row.holes_entered = 0
    /\ row.total # Nothing =>
          /\ Val(row.total) = OrZero(row.out) + OrZero(row.in)
          /\ Val(row.total) = StrokesOn(r, Played(r))
RowsConsistent(rows) == \A i \in DOMAIN rows : RowConsistent(rows[i], RoundOf(rows[i]))

\* C37 (row consistency): in every leaderboard row, to_par is absent iff total is absent
\* iff holes_entered is 0; when present, total equals out_total + in_total with each
\* null nine counted as 0, which equals the sum of strokes over the round's scored holes.
C37_RowConsistency == \A q \in Orders : RowsConsistent(PageRows(q))

\* One team has 4 on hole 9 and 4 on hole 10, one has only a 0 on hole 10 (its front
\* nine is null), and one has not scored.
C37_Witness ==
    \E q \in Orders : \E i, j, k \in DOMAIN PageRows(q) :
        /\ PageRows(q)[i].out = Just(4) /\ PageRows(q)[i].in = Just(4) /\ PageRows(q)[i].total = Just(8)
        /\ PageRows(q)[j].out = Nothing /\ PageRows(q)[j].in = Just(0) /\ PageRows(q)[j].total = Just(0)
        /\ PageRows(q)[k].total = Nothing /\ PageRows(q)[k].holes_entered = 0

\* ---------------------------------------------------------------- C39
\* The round as a finalize by u at the present time leaves it.
FinalizedNowBy(o, rid, u) ==
    \E r \in o.db.rounds : r.id = rid /\ r.finalized_at = clock /\ r.finalized_by = u
\* A finalize whose card meets the preconditions locks the round for its actor.
Refinalized(o, rid, u) ==
    AllHolesScored(o.db, rid) /\ EveryMemberCovered(o.db, rid) => FinalizedNowBy(o, rid, u)
\* What the requests that follow an unlock do, on the rows the unlock left.
OpenAgain(unlocked, rid) ==
    /\ \E r \in unlocked.db.rounds : r.id = rid /\ r.finalized_at = None /\ r.finalized_by = NoUser
    /\ SameCard(unlocked)
    /\ \A u \in Editors, f \in Forms :
          /\ CardAsPosted(team_scorecard_view(unlocked.db, u, "POST", "save", f), rid, f)
          /\ Refinalized(team_scorecard_view(unlocked.db, u, "POST", "finalize", f), rid, u)

\* C39 (the lifecycle repeats): after an administrator unlocks a FINAL round, the round
\* accepts hole writes from authorized editors again, and a later finalize that meets
\* the preconditions makes it FINAL again with finalized_at and finalized_by set to that
\* finalize's time and actor; this holds of every FINAL round, however often it was
\* finalized and unlocked before.
C39_LifecycleRepeats ==
    \A r \in FinalRounds : OpenAgain(CardPost("admin", "unlock", BlankForm), r.id)

\* ================================== EventSettings, statement by statement
\* Variant of SettingsUnique: the table has no primary key constraint.
SettingsUniqueOff(es, pk) == TRUE
\* The primary key: may a row with this pk be inserted?
SettingsUnique(es, pk) == ~ \E e \in es : e.pk = pk

\* save(): self.pk = 1, whatever the instance had (None on the admin's add form)
SingletonPk(pk) == 1
SavedPks == {None, 1}
\* The instance a save writes
SettingsInstance(pk, public, course) == [EventSettingsRow(public, course) EXCEPT !.pk = SingletonPk(pk)]

\* INSERT: the row is added, or the statement fails with IntegrityError
SettingsInsert(es, row) == IF SettingsUnique(es, row.pk) THEN es \cup {row} ELSE es
\* UPDATE ... WHERE pk = row.pk
SettingsUpdate(es, row) == {IF e.pk = row.pk THEN row ELSE e : e \in es}

\* A request between its statements (row: what it goes on to INSERT), and once it is
\* done (row: how it came by the row).
Request(pc, row) == [pc |-> pc, row |-> row]

\* load(): get_or_create(pk=1) begins with a SELECT; a miss goes on to INSERT
LoadLookup(s) ==
    /\ pending[s].pc = "idle"
    /\ pending' = [pending EXCEPT ![s] =
                     IF \E e \in eventSettings : e.pk = 1
                     THEN Request("done", "found")
                     ELSE Request("load_insert", EventSettingsRow(FALSE, None))]
    /\ UNCHANGED <<teamPlayers, rounds, scores, drives, clock, eventSettings, otherTables>>

\* ... the INSERT of get_or_create; on IntegrityError the row is fetched instead
LoadInsert(s) ==
    /\ pending[s].pc = "load_insert"
    /\ eventSettings' = SettingsInsert(eventSettings, pending[s].row)
    /\ pending' = [pending EXCEPT ![s] =
                     Request("done", IF SettingsUnique(eventSettings, pending[s].row.pk)
                                     THEN "created" ELSE "fetched")]
    /\ UNCHANGED <<teamPlayers, rounds, scores, drives, clock, otherTables>>

\* save(): Model.save tries UPDATE first; when no row matched it goes on to INSERT
SaveUpdate(s, pk, public, course) ==
    /\ pending[s].pc = "idle"
    /\ eventSettings' = SettingsUpdate(eventSettings, SettingsInstance(pk, public, course))
    /\ pending' = [pending EXCEPT ![s] =
                     IF \E e \in eventSettings : e.pk = SingletonPk(pk)
                     THEN Request("done", "updated")
                     ELSE Request("save_insert", SettingsInstance(pk, public, course))]
    /\ UNCHANGED <<teamPlayers, rounds, scores, drives, clock, otherTables>>

\* ... the INSERT of save; IntegrityError ends the request
SaveInsert(s) ==
    /\ pending[s].pc = "save_insert"
    /\ eventSettings' = SettingsInsert(eventSettings, pending[s].row)
    /\ pending' = [pending EXCEPT ![s] =
                     Request("done", IF SettingsUnique(eventSettings, pending[s].row.pk)
                                     THEN "inserted" ELSE "IntegrityError")]
    /\ UNCHANGED <<teamPlayers, rounds, scores, drives, clock, otherTables>>

\* The connection serves its next request.
NextRequest(s) ==
    /\ pending[s].pc = "done"
    /\ pending' = [pending EXCEPT ![s] = Idle]
    /\ UNCHANGED <<teamPlayers, rounds, scores, drives, clock, eventSettings, otherTables>>

NextSettings ==
    \/ \E s \in Slots : LoadLookup(s)
    \/ \E s \in Slots : LoadInsert(s)
    \/ \E s \in Slots, pk \in SavedPks, b \in BOOLEAN, c \in Courses : SaveUpdate(s, pk, b, c)
    \/ \E s \in Slots : SaveInsert(s)
    \/ \E s \in Slots : NextRequest(s)

SpecSettings == InitBoard /\ [][NextSettings]_vars

\* ---------------------------------------------------------------- C33
\* C33 (singleton settings): after any interleaving of first-access loads and saves of
\* the event settings, exactly one settings row exists and it has pk = 1; concurrent
\* first access never creates duplicates (at no point are there two rows).
C33_SingletonSettings ==
    /\ Cardinality(eventSettings) <= 1
    /\ \A e \in eventSettings : e.pk = 1
    /\ (\E s \in Slots : pending[s].pc = "done") => Cardinality(eventSettings) = 1

\* A load and a save both missed and both went on to INSERT: the save's INSERT came
\* first, the load's failed and fetched the row the save wrote.
C33_Witness ==
    /\ \E s, t \in Slots : pending[s] = Request("done", "fetched") /\ pending[t] = Request("done", "inserted")
    /\ eventSettings = {EventSettingsRow(TRUE, 1)}

\* ===================================================== Magic sign-in links
\* hashlib.sha256(raw).hexdigest(): one-to-one on the secrets below, and not the secret
_hash(raw) == <<"sha256", raw>>

\* ttl_seconds = 15 * 60, in ticks of the clock
TtlTicks == 1
\* secrets.token_urlsafe(32)
Secrets == {"s1", "s2"}
\* The users links are made for, and the primary keys the table hands out.
MagicUsers == {"scorer", "viewer"}
TokenIds == {1, 2}
\* The token ids a login URL may carry: those of the table and one of no row.
UrlTokenIds == TokenIds \cup {3}

MagicLoginToken(user, token_hash, expires_at) ==
    [user |-> user, token_hash |-> token_hash, expires_at |-> expires_at, used_at |-> None]

\* Variant of Expired: the link is still good at its expiry time.
ExpiredAfter(tok, now) == tok.expires_at < now
\* tok.expires_at <= now()
Expired(tok, now) == tok.expires_at <= now

\* validate_token: the pk of the row, or None
validate_token(toks, token_id, raw, now) ==
    IF token_id \notin DOMAIN toks THEN None
    ELSE IF toks[token_id].used_at # None \/ Expired(toks[token_id], now) THEN None
    ELSE IF toks[token_id].token_hash # _hash(raw) THEN None
    ELSE token_id

Signed(toks, sess, next) == [tokens |-> toks, sessions |-> sess, next |-> next]

\* tok.used_at = now(); tok.save(update_fields=["used_at"]); login(request, tok.user),
\* tok being the row validate_token fetched
MarkUsedAndLogin(toks, sess, browser, token_id, user, now) ==
    Signed([toks EXCEPT ![token_id].used_at = now],
           [b \in DOMAIN sess \cup {browser} |-> IF b = browser THEN user ELSE sess[b]],
           "dashboard")

\* magic_login_view, served at one instant
magic_login_view(toks, sess, browser, token_id, raw, now) ==
    IF validate_token(toks, token_id, raw, now) = None
    THEN Signed(toks, sess, "magic_request")
    ELSE MarkUsedAndLogin(toks, sess, browser, token_id, toks[token_id].user, now)

\* ----------------------------------------------------------- actions
\* create_magic_link(request, user, ttl_seconds=15*60)
CreateMagicLink(user, raw) ==
    /\ \E id \in TokenIds :
          /\ id \notin DOMAIN tokens
          /\ \A j \in TokenIds : j < id => j \in DOMAIN tokens
          /\ tokens' = tokens @@ (id :> MagicLoginToken(user, _hash(raw), clock + TtlTicks))
    /\ UNCHANGED <<teamPlayers, rounds, scores, drives, clock, pending, eventSettings, teams, players, sessions>>

\* magic_login_view up to the return of validate_token; a browser's request is held in
\* its slot from there to the save of used_at
MagicValidate(s, token_id, raw) ==
    /\ pending[s].pc = "idle"
    /\ pending' = [pending EXCEPT ![s] =
                     IF validate_token(tokens, token_id, raw, clock) = None
                     THEN Request("done", [token |-> token_id, next |-> "magic_request"])
                     ELSE Request("login", [token |-> token_id, raw |-> raw, user |-> tokens[token_id].user])]
    /\ UNCHANGED <<teamPlayers, rounds, scores, drives, clock, eventSettings, otherTables>>

\* ... and from there on: mark used, log in
MagicLogin(s) ==
    /\ pending[s].pc = "login"
    /\ \E o \in {MarkUsedAndLogin(tokens, sessions, s, pending[s].row.token, pending[s].row.user, clock)} :
          /\ tokens' = o.tokens
          /\ sessions' = o.sessions
          /\ pending' = [pending EXCEPT ![s] = Request("done", [token |-> pending[s].row.token, next |-> o.next])]
    /\ UNCHANGED <<teamPlayers, rounds, scores, drives, clock, eventSettings, teams, players>>

NextMagic ==
    \/ Tick
    \/ \E u \in MagicUsers, raw \in Secrets : CreateMagicLink(u, raw)
    \/ \E s \in Slots, id \in UrlTokenIds, raw \in Secrets : MagicValidate(s, id, raw)
    \/ \E s \in Slots : MagicLogin(s)
    \/ \E s \in Slots : NextRequest(s)

SpecMagic == Init /\ [][NextMagic]_vars

\* ------------------------------------------------ a login request, as asked
MagicLoginBy(browser, token_id, raw) == magic_login_view(tokens, sessions, browser, token_id, raw, clock)
Accepted(o) == o.next = "dashboard"
SameTokens(o) == o.tokens = tokens /\ o.sessions = sessions

\* ---------------------------------------------------------------- C34
\* The requests that were accepted on presenting token k.
AcceptedWith(k) == {s \in Slots : pending[s] = Request("done", [token |-> k, next |-> "dashboard"])}

\* C34 (single use): across any sequence or interleaving of login requests that present
\* the same token, at most one request is accepted and logs the user in.
C34_SingleUse == \A k \in DOMAIN tokens : Cardinality(AcceptedWith(k)) <= 1

\* ---------------------------------------------------------------- C35
AcceptedOnlyIfValid(o, token_id, raw) ==
    Accepted(o) =>
        /\ token_id \in DOMAIN tokens
        /\ tokens[token_id].used_at = None
        /\ clock < tokens[token_id].expires_at
        /\ _hash(raw) = tokens[token_id].token_hash
LateOrWrong(token_id, raw) ==
    token_id \in DOMAIN tokens
        /\ (clock >= tokens[token_id].expires_at \/ _hash(raw) # tokens[token_id].token_hash)
RejectedLeavesAll(o, token_id, raw) ==
    LateOrWrong(token_id, raw) => ~Accepted(o) /\ SameTokens(o)
LoginChecked(o, token_id, raw) == AcceptedOnlyIfValid(o, token_id, raw) /\ RejectedLeavesAll(o, token_id, raw)
\* The same of the requests in progress: one passes validate_token ...
Validates(s) == pending[s].pc = "idle" /\ pending'[s].pc = "login"
ValidWhenChecked(row) ==
    /\ row.token \in DOMAIN tokens
    /\ tokens[row.token].used_at = None
    /\ clock < tokens[row.token].expires_at
    /\ _hash(row.raw) = tokens[row.token].token_hash
    /\ row.user = tokens[row.token].user
\* ... and only one that did marks a token used or logs a user in.
MarksOrLogsIn ==
    \/ sessions' # sessions
    \/ \E k \in DOMAIN tokens : tokens'[k].used_at # tokens[k].used_at

\* C35 (token acceptance): a magic sign-in token is accepted only if the token row
\* exists, has not been marked used, the current time is strictly before its expiry time
\* and the presented secret hashes to the stored hash; a request at or after the expiry
\* time, or with a wrong secret, logs no user in and does not mark the token used.
C35_TokenAcceptance ==
    /\ [](\A b \in Slots, token_id \in UrlTokenIds, raw \in Secrets :
             LoginChecked(MagicLoginBy(b, token_id, raw), token_id, raw))
    /\ [][\A s \in Slots : Validates(s) => ValidWhenChecked(pending'[s].row)]_vars
    /\ [][MarksOrLogsIn => \E s \in Slots : pending[s].pc = "login" /\ pending'[s].pc = "done"]_vars

\* A link made at time 0 is presented with its own secret at its expiry time, time 1,
\* unused: the request is turned away.
C35_Witness ==
    \E k \in DOMAIN tokens, raw \in Secrets :
        /\ tokens[k].used_at = None /\ tokens[k].expires_at = clock
        /\ _hash(raw) = tokens[k].token_hash
        /\ ~Accepted(MagicLoginBy(1, k, raw))
        /\ \E j \in DOMAIN tokens : tokens[j].used_at # None

====
